---- MODULE Spec2Model ----
(***************************************************************************)
(* Model of the quantum_trading_system repository: the fee/slippage        *)
(* backtest engine (src/src/backtest/backtester.py) and the per-day asset  *)
(* selection (src/optimizer.py, src/src/optimizer/quantum_optimizer.py,    *)
(* src/main.py, src/tools/run_backtest.py).                                *)
(*                                                                         *)
(* Money and quantities are Python floats in the source.  They are         *)
(* modelled as exact rationals <<n, d>> in lowest terms with d > 0, and    *)
(* the float NaN as <<0, 0>>: every arithmetic operation with a NaN        *)
(* operand yields NaN and every ordered comparison with NaN is false.      *)
(* IEEE rounding is not modelled.                                          *)
(***************************************************************************)
EXTENDS Integers, Sequences, FiniteSets, TLC

VARIABLES
    \* ---- run_simple_backtest (src/src/backtest/backtester.py) ----
    pc,                   \* position in the loop: "idle", "sell", "buy", "done"
    TRANSACTION_FEE_PCT,  \* config_module.TRANSACTION_FEE_PCT
    SLIPPAGE_PCT,         \* config_module.SLIPPAGE_PCT
    initial_capital,      \* argument initial_capital
    n_dates,              \* len(daily_choices)
    price_df,             \* rows of price_df for the dates processed so far
    daily_choices,        \* target_assets of the dates processed so far
    cash,
    positions,
    portfolio_history,    \* the 'value' column of portfolio_history
    total_fees,
    total_slippage_cost,
    trade_count,
    current_assets,       \* line 28, computed once per date
    to_sell,              \* what the for loop of line 31 has still to visit
    to_buy,               \* what the for loop of line 48 has still to visit
    cash_per_asset,       \* line 47
    cost_history,         \* history: date, totals, cash, positions at each Value step
    \* ---- the per-day selection (src/main.py, src/tools/run_backtest.py) ----
    opt_pc,               \* "loop", "solved", "end"; "off" in a backtest run
    strategy,             \* which driver and solver the run uses
    SEED,                 \* tools/run_backtest.py --seed (None when absent)
    eigen_tie,            \* which of several equal optima the exact eigensolver returns
    opt_choices,          \* the drivers' daily_choices, in date order
    predictions,          \* the scores of the date being solved
    sigma,                \* returns.cov() of the date's price window
    candidates,           \* preds.index as passed to the optimizer
    solver_called,        \* whether the date's selection came from a solver
    chosen_assets,        \* the date's selection
    chosen_again,         \* history: <<selection>> of a second, identical call, else <<>>
    \* ---- the performance metrics (calculate_metrics, src/backtester.py) ----
    met_pc,               \* "input" once a curve is given; "off" otherwise
    equity_curve,         \* the values of the curve the metrics are computed from
    risk_free_rate,       \* argument of calculate_sharpe_ratio
    metrics,              \* <<the dict calculate_metrics returned>>, else <<>>
    max_drawdown,         \* <<what calculate_max_drawdown returned>>, else <<>>
    sharpe_ratio,         \* <<what calculate_sharpe_ratio returned>>, else <<>>
    \* ---- two walk-forward runs side by side (main.py, run_backtest.py) ----
    wf_pc,                \* "select", "backtest", "end"; "off" otherwise
    wf_strategy,          \* the driver and solver both runs use
    table_a,              \* price_df of run a, one row per date
    table_b,              \* price_df of run b
    tamper_date,          \* the date whose stored selection run b replaces (0: none)
    wf_i,                 \* the dates the current loop has processed
    choices_a,            \* daily_choices of run a: date -> selection
    choices_b,            \* daily_choices of run b
    equity_a,             \* portfolio_value of run a
    equity_b,             \* portfolio_value of run b
    \* ---- interruption of a backtest ----
    interrupt,            \* "raised" once KeyboardInterrupt left run_simple_backtest
    \* ---- data validation (data_validator.py, schema_registry.py) ----
    val_pc,               \* "input", "scored"; "off" otherwise
    val_input,            \* what is validated, as the counts the score depends on
    quality_score,        \* result.quality_score
    \* ---- ValidationResult (models.py) and DataValidator.validate ----
    res_pc,               \* "build", "combined"; "off" otherwise
    results,              \* the completeness, range and consistency results
    combined,             \* <<the result validate returned>>, else <<>>
    \* ---- SchemaRegistry (schema_registry.py) ----
    reg_pc,               \* "glob", "load", "ready"; "off" otherwise
    directory,            \* history: schema_directory as the constructor found it
    schema_files,         \* what the for loop of line 224 has still to visit
    _schemas,             \* asset type -> version -> migration_paths
    loaded_any,           \* line 223
    _loaded_default_schemas,
    _migration_cache,     \* the keys of self._migration_cache
    heap,                 \* the dict objects, by identity
    migrations,           \* history: the migrate_data calls made so far
    \* ---- threads calling validate_data on one registry ----
    th_pc,                \* per thread: "call", "created", "found", "checked", "returned"
    th_call,              \* per thread: the arguments of its call
    th_schema_info,       \* per thread: the local schema_info
    result_objects        \* the ValidationResult objects of the calls, by identity

bt_vars == <<pc, TRANSACTION_FEE_PCT, SLIPPAGE_PCT, initial_capital, n_dates,
             price_df, daily_choices, cash, positions, portfolio_history,
             total_fees, total_slippage_cost, trade_count, current_assets,
             to_sell, to_buy, cash_per_asset, cost_history>>

opt_vars == <<opt_pc, strategy, SEED, eigen_tie, opt_choices, predictions,
              sigma, candidates, solver_called, chosen_assets, chosen_again>>

met_vars == <<met_pc, equity_curve, risk_free_rate, metrics, max_drawdown,
              sharpe_ratio>>

\* the variables of the computations beside the backtest and the selection
walk_vars == <<wf_pc, wf_strategy, table_a, table_b, tamper_date, wf_i,
               choices_a, choices_b, equity_a, equity_b>>

val_vars == <<val_pc, val_input, quality_score>>

res_vars == <<res_pc, results, combined>>

schema_vars == <<reg_pc, directory, schema_files, _schemas, loaded_any,
                 _loaded_default_schemas, _migration_cache, heap, migrations>>

thread_vars == <<th_pc, th_call, th_schema_info, result_objects>>

\* the variables of src/src/ingestion beside the quality score
reg_vars == <<res_vars, schema_vars, thread_vars>>

aux_vars == <<met_vars, walk_vars, interrupt, val_vars, reg_vars>>

vars == <<bt_vars, opt_vars, aux_vars>>

----------------------------------------------------------------------------
(* Bounds of the model *)

MaxDays == 3

Assets == {"X", "Y"}

\* positive market prices of the generic runs
PriceValues == {1, 2}

----------------------------------------------------------------------------
(* Float arithmetic: exact rationals, NaN = <<0, 0>> *)

RECURSIVE GCD(_, _)
GCD(a, b) == IF b = 0 THEN a ELSE GCD(b, a % b)

Abs(n) == IF n < 0 THEN -n ELSE n

NaN == <<0, 0>>

IsNaN(a) == a[2] = 0

Norm(n, d) ==
    LET g == GCD(Abs(n), Abs(d))
        s == IF d < 0 THEN -1 ELSE 1
    IN  <<s * (n \div g), s * (d \div g)>>

R(n) == <<n, 1>>

Frac(n, d) == Norm(n, d)

RAdd(a, b) ==
    IF IsNaN(a) \/ IsNaN(b) THEN NaN
    ELSE LET g == GCD(a[2], b[2])
         IN  Norm(a[1] * (b[2] \div g) + b[1] * (a[2] \div g), (a[2] \div g) * b[2])

RNeg(a) == <<-a[1], a[2]>>

RSub(a, b) == RAdd(a, RNeg(b))

RMul(a, b) ==
    IF IsNaN(a) \/ IsNaN(b) THEN NaN
    ELSE LET g1 == GCD(Abs(a[1]), b[2])
             g2 == GCD(Abs(b[1]), a[2])
         IN  <<(a[1] \div g1) * (b[1] \div g2), (a[2] \div g2) * (b[2] \div g1)>>

\* x / y; a zero divisor does not occur for positive prices and a non-empty
\* target list, and 0/0 is NaN
RDiv(a, b) ==
    IF IsNaN(a) \/ IsNaN(b) \/ b[1] = 0 THEN NaN
    ELSE RMul(a, IF b[1] < 0 THEN <<-b[2], -b[1]>> ELSE <<b[2], b[1]>>)

\* a > b and a >= b on floats: false when either side is NaN
RGt(a, b) == ~IsNaN(a) /\ ~IsNaN(b) /\ a[1] * b[2] > b[1] * a[2]

RGe(a, b) == ~IsNaN(a) /\ ~IsNaN(b) /\ a[1] * b[2] >= b[1] * a[2]

RECURSIVE RSum(_, _)
\* sum of f[x] over the finite set S
RSum(f, S) ==
    IF S = {} THEN R(0)
    ELSE LET x == CHOOSE y \in S : TRUE
         IN  RAdd(f[x], RSum(f, S \ {x}))

----------------------------------------------------------------------------
(* Inputs of a backtest run *)

\* the cost configurations a run is started with: (fee_pct, slippage_pct),
\* both in [0, 1)
CostConfigs ==
    { <<Frac(0, 1), Frac(0, 1)>>,
      <<Frac(1, 2), Frac(0, 1)>>,
      <<Frac(0, 1), Frac(1, 2)>>,
      <<Frac(1, 2), Frac(1, 2)>> }

\* configs/config.py
ConfigFee == Frac(1, 1000)

ConfigSlippage == Frac(1, 2000)

ConfigCapital == R(10000)

\* the run of scenario A: the shipped configuration, one date, price 100
IsScenarioA == initial_capital = ConfigCapital

\* the rows a date of price_df can hold
PriceRows ==
    IF IsScenarioA THEN [Assets -> {R(100)}]
    ELSE [Assets -> {R(p) : p \in PriceValues}]

----------------------------------------------------------------------------
(* run_simple_backtest *)

\* mutant of PortfolioValue: the positions are left out of the valuation
PortfolioValueCashOnly(c, pos, row) == c

\* lines 22-24: cash plus quantity x price over ALL columns of positions
PortfolioValue(c, pos, row) ==
    RAdd(c, RSum([a \in Assets |-> RMul(pos[a], row[a])], Assets))

\* line 28
\* mutant of HeldAssets: no asset counts as held
HeldAssetsNone(pos) == {}

HeldAssets(pos) == {a \in Assets : RGt(pos[a], R(0))}

\* lines 32-37 for one asset
SellPrice(price) == RMul(price, RSub(R(1), SLIPPAGE_PCT))

SellSlippage(qty, price) == RMul(qty, RSub(price, SellPrice(price)))

SellProceeds(qty, price) == RMul(qty, SellPrice(price))

\* mutant of SellFee: the fee is taken on the value before slippage
SellFeeOnGross(qty, price) == RMul(RMul(qty, price), TRANSACTION_FEE_PCT)

SellFee(qty, price) == RMul(SellProceeds(qty, price), TRANSACTION_FEE_PCT)

\* mutant of BuyPrice: the slippage is applied in the seller's direction
BuyPriceDiscount(price) == RMul(price, RSub(R(1), SLIPPAGE_PCT))

\* lines 50-56 for one asset
BuyPrice(price) == RMul(price, RAdd(R(1), SLIPPAGE_PCT))

BuySlippage(cpa, price) ==
    RMul(RDiv(cpa, BuyPrice(price)), RSub(BuyPrice(price), price))

\* mutant of BuyFee: the rate is used as a multiplier (1 + fee_pct)
BuyFeeAsMultiplier(cpa) == RMul(cpa, RAdd(R(1), TRANSACTION_FEE_PCT))

BuyFee(cpa) == RMul(cpa, TRANSACTION_FEE_PCT)

BuyQuantity(cpa, price) == RDiv(RSub(cpa, BuyFee(cpa)), BuyPrice(price))

\* mutant of BuyCashSpent: the fee is charged on top of the allocation
BuyCashSpentFeeOnTop(cpa) == RAdd(cpa, RMul(cpa, TRANSACTION_FEE_PCT))

\* line 58: what one buy takes out of cash
BuyCashSpent(cpa) == cpa

\* line 47
CashPerAsset(c, target) == RDiv(c, R(Cardinality(target)))

\* mutant of SellSet: an empty target list leaves the portfolio alone
SellSetKeepOnNoSignal(held, target) == IF target = {} THEN {} ELSE held \ target

\* line 31: current_assets - set(target_assets)
SellSet(held, target) == held \ target

Today == Len(price_df)

TodayRow == price_df[Today]

TodayTarget == daily_choices[Today]

\* lines 11-18, before the first date
InitBacktest ==
    /\ \/ /\ \E c \in CostConfigs :
               /\ TRANSACTION_FEE_PCT = c[1]
               /\ SLIPPAGE_PCT = c[2]
          /\ initial_capital = R(8)
          /\ n_dates = MaxDays
       \/ /\ TRANSACTION_FEE_PCT = ConfigFee
          /\ SLIPPAGE_PCT = ConfigSlippage
          /\ initial_capital = ConfigCapital
          /\ n_dates = 1
    /\ pc = "idle"
    /\ price_df = <<>>
    /\ daily_choices = <<>>
    /\ cash = initial_capital
    /\ positions = [a \in Assets |-> R(0)]
    /\ portfolio_history = <<>>
    /\ total_fees = R(0)
    /\ total_slippage_cost = R(0)
    /\ trade_count = 0
    /\ current_assets = {}
    /\ to_sell = {}
    /\ to_buy = {}
    /\ cash_per_asset = R(0)
    /\ cost_history = <<>>

\* the keys of daily_choices that the loop of line 20 has visited
DatesDone == {cost_history[i].date : i \in DOMAIN cost_history}

\* lines 20-31: the next item (date, target) of daily_choices.items(), a key
\* not visited before; the Value step, then the snapshot of the held assets
\* and the set the sell loop iterates over
ValueStep(date, row, target) ==
    /\ pc = "idle"
    /\ Len(price_df) < n_dates
    /\ date \in (1..n_dates) \ DatesDone
    /\ price_df' = Append(price_df, row)
    /\ daily_choices' = Append(daily_choices, target)
    /\ portfolio_history' =
           Append(portfolio_history, PortfolioValue(cash, positions, row))
    /\ current_assets' = HeldAssets(positions)
    /\ to_sell' = SellSet(HeldAssets(positions), target)
    /\ cost_history' = Append(cost_history,
           [fees |-> total_fees, slippage |-> total_slippage_cost,
            trades |-> trade_count, cash |-> cash, positions |-> positions,
            date |-> date])
    /\ pc' = "sell"
    /\ UNCHANGED <<TRANSACTION_FEE_PCT, SLIPPAGE_PCT, initial_capital, n_dates,
                   cash, positions, total_fees, total_slippage_cost,
                   trade_count, to_buy, cash_per_asset>>

\* a daily_choices filled in ascending date order, as the drivers fill it
\* (main.py lines 17-38, run_backtest.py lines 58-85)
NextDate ==
    /\ \E row \in PriceRows, target \in SUBSET Assets :
           ValueStep(Len(price_df) + 1, row, target)
    /\ UNCHANGED <<opt_vars, aux_vars>>

\* a price table with gaps: an asset whose column starts later, or a missing
\* quote, is NaN in price_df (pd.concat of series with different dates)
GapRows == [Assets -> {R(1), NaN}]

NextDateGap ==
    /\ \E row \in GapRows, target \in SUBSET Assets :
           ValueStep(Len(price_df) + 1, row, target)
    /\ UNCHANGED <<opt_vars, aux_vars>>

\* lines 31-43: one iteration of the sell loop
SellAsset(asset) ==
    /\ pc = "sell"
    /\ asset \in to_sell
    /\ LET price == TodayRow[asset]
           qty == positions[asset]
       IN  /\ cash' = RAdd(cash, RSub(SellProceeds(qty, price), SellFee(qty, price)))
           /\ total_fees' = RAdd(total_fees, SellFee(qty, price))
           /\ total_slippage_cost' =
                  RAdd(total_slippage_cost, SellSlippage(qty, price))
    /\ positions' = [positions EXCEPT ![asset] = R(0)]
    /\ trade_count' = trade_count + 1
    /\ to_sell' = to_sell \ {asset}
    /\ UNCHANGED <<pc, TRANSACTION_FEE_PCT, SLIPPAGE_PCT, initial_capital,
                   n_dates, price_df, daily_choices, portfolio_history,
                   current_assets, to_buy, cash_per_asset, cost_history>>

Sell == (\E asset \in Assets : SellAsset(asset)) /\ UNCHANGED <<opt_vars, aux_vars>>

\* lines 46-48: the sell loop is over; with a non-empty target the cash is
\* split over len(target_assets) and the buy loop visits every target asset
BeginBuy ==
    /\ pc = "sell"
    /\ to_sell = {}
    /\ pc' = "buy"
    /\ IF TodayTarget # {}
       THEN /\ cash_per_asset' = CashPerAsset(cash, TodayTarget)
            /\ to_buy' = TodayTarget
       ELSE /\ to_buy' = {}
            /\ UNCHANGED cash_per_asset
    /\ UNCHANGED <<TRANSACTION_FEE_PCT, SLIPPAGE_PCT, initial_capital, n_dates,
                   price_df, daily_choices, cash, positions, portfolio_history,
                   total_fees, total_slippage_cost, trade_count,
                   current_assets, to_sell, cost_history>>
    /\ UNCHANGED <<opt_vars, aux_vars>>

\* lines 48-62: one iteration of the buy loop
BuyAsset(asset) ==
    /\ pc = "buy"
    /\ asset \in to_buy
    /\ to_buy' = to_buy \ {asset}
    /\ IF asset \notin current_assets
       THEN LET price == TodayRow[asset]
            IN  /\ positions' = [positions EXCEPT
                       ![asset] = BuyQuantity(cash_per_asset, price)]
                /\ cash' = RSub(cash, BuyCashSpent(cash_per_asset))
                /\ total_fees' = RAdd(total_fees, BuyFee(cash_per_asset))
                /\ total_slippage_cost' =
                       RAdd(total_slippage_cost, BuySlippage(cash_per_asset, price))
                /\ trade_count' = trade_count + 1
       ELSE UNCHANGED <<positions, cash, total_fees, total_slippage_cost,
                        trade_count>>
    /\ UNCHANGED <<pc, TRANSACTION_FEE_PCT, SLIPPAGE_PCT, initial_capital,
                   n_dates, price_df, daily_choices, portfolio_history,
                   current_assets, to_sell, cash_per_asset, cost_history>>

Buy == (\E asset \in Assets : BuyAsset(asset)) /\ UNCHANGED <<opt_vars, aux_vars>>

\* end of the body of the loop of line 20
EndDate ==
    /\ pc = "buy"
    /\ to_buy = {}
    /\ pc' = "idle"
    /\ UNCHANGED <<TRANSACTION_FEE_PCT, SLIPPAGE_PCT, initial_capital, n_dates,
                   price_df, daily_choices, cash, positions, portfolio_history,
                   total_fees, total_slippage_cost, trade_count,
                   current_assets, to_sell, to_buy, cash_per_asset, cost_history>>
    /\ UNCHANGED <<opt_vars, aux_vars>>

\* lines 64-72: daily_choices is exhausted, the curve and trade_stats are returned
Finish ==
    /\ pc = "idle"
    /\ Len(price_df) = n_dates
    /\ pc' = "done"
    /\ UNCHANGED <<TRANSACTION_FEE_PCT, SLIPPAGE_PCT, initial_capital, n_dates,
                   price_df, daily_choices, cash, positions, portfolio_history,
                   total_fees, total_slippage_cost, trade_count,
                   current_assets, to_sell, to_buy, cash_per_asset, cost_history>>
    /\ UNCHANGED <<opt_vars, aux_vars>>

----------------------------------------------------------------------------
(* The per-day selection: the optimizers and the drivers that call them *)

MaxOptDays == 1

\* the scores a predictor can give an asset
ScoreValues == {-1, 0, 1}

\* src/config.py ASSETS: the universe of src/main.py
MainAssets == <<"A", "B", "C">>

\* configs/config.py ASSETS: the universe of tools/run_backtest.py (more
\* assets than QAOA_TOP_N_ASSETS)
ToolsAssets == <<"A", "B", "C", "D">>

\* configs/config.py
QAOA_TOP_N_ASSETS == 3

\* src/main.py line 24: predictions.nlargest(3)
MainTopN == 3

\* src/src/optimizer/quantum_optimizer.py line 42: min(n_assets, 3)
BudgetTopN == 3

\* src/optimizer.py lines 28-29: the rhs of min_one_asset and max_two_assets
MinOneAsset == 1

MaxTwoAssets == 2

\* src/src/optimizer/quantum_optimizer.py line 23: q = 0.5, as <<n, d>>
QFactor == <<1, 2>>

\* Scores, covariances and objective values are floats; the optimizers only
\* add, scale and compare them.  The value n/d is held as the integer number
\* of 1/20ths, which is exact for the scores, covariances and q of the model.
Ticks(n, d) == (20 * n) \div d

RECURSIVE ISum(_, _)
\* sum of f[x] over the finite set S
ISum(f, S) ==
    IF S = {} THEN 0
    ELSE LET x == CHOOSE y \in S : TRUE
         IN  f[x] + ISum(f, S \ {x})

SeqToSet(sq) == {sq[i] : i \in 1..Len(sq)}

Min(a, b) == IF a < b THEN a ELSE b

RemoveAt(sq, i) == [j \in 1..(Len(sq) - 1) |-> IF j < i THEN sq[j] ELSE sq[j + 1]]

RECURSIVE NLargest(_, _, _)
\* Series.nlargest(k): the k highest scores in descending order, the first
\* in index order among equal scores
NLargest(preds, index, k) ==
    IF k = 0 \/ index = <<>> THEN <<>>
    ELSE LET best == CHOOSE i \in 1..Len(index) :
                        \A j \in 1..Len(index) :
                            \/ preds[index[j]] < preds[index[i]]
                            \/ preds[index[j]] = preds[index[i]] /\ i <= j
         IN  <<index[best]>> \o NLargest(preds, RemoveAt(index, best), k - 1)

AnyPositive(preds, index) == \E a \in SeqToSet(index) : preds[a] > 0

\* the covariance matrices of the model: no history (fewer than 2 returns)
\* and one positive semi-definite sample
ZeroSigma ==
    [pr \in SeqToSet(ToolsAssets) \X SeqToSet(ToolsAssets) |-> Ticks(0, 1)]

SampleSigma ==
    [pr \in SeqToSet(ToolsAssets) \X SeqToSet(ToolsAssets) |->
        IF pr[1] = pr[2] THEN Ticks(3, 10) ELSE Ticks(-1, 10)]

Sigmas == {ZeroSigma, SampleSigma}

\* src/optimizer.py lines 15-29 and 60-70: one binary variable per asset of
\* preds.index, a linear coefficient for the positive scores only, and
\* 1 <= sum(x) <= 2
LegacyQP(preds, index) ==
    [vars |-> index,
     lin  |-> [a \in SeqToSet(index) |->
                  IF preds[a] > 0 THEN Ticks(preds[a], 1) ELSE 0],
     quad |-> [pr \in SeqToSet(index) \X SeqToSet(index) |-> 0],
     lo   |-> MinOneAsset,
     hi   |-> MaxTwoAssets]

\* quantum_optimizer.py lines 9-44: maximize q.mu.x - x'.(1-q).sigma.x, with
\* sum(x) == top_n only when there are more than top_n assets
MarkowitzQP(preds, index, sig) ==
    LET n_assets == Len(index)
        top_n == Min(n_assets, BudgetTopN)
    IN  [vars |-> index,
         lin  |-> [a \in SeqToSet(index) |->
                      Ticks(QFactor[1] * preds[a], QFactor[2])],
         quad |-> [pr \in SeqToSet(index) \X SeqToSet(index) |->
                      ((QFactor[2] - QFactor[1]) * sig[pr]) \div QFactor[2]],
         lo   |-> IF n_assets > top_n THEN top_n ELSE 0,
         hi   |-> IF n_assets > top_n THEN top_n ELSE n_assets]

\* the binary vectors of a program, each as the set of variables that are 1
Bitstrings(qp) == SUBSET SeqToSet(qp.vars)

\* the objective linear.x - x'.quadratic.x (qp.maximize)
ObjValue(qp, x) == ISum(qp.lin, x) - ISum(qp.quad, x \X x)

\* by how much sum(x) misses the linear constraints
Violation(qp, x) ==
    LET k == Cardinality(x)
    IN  IF k < qp.lo THEN qp.lo - k ELSE IF k > qp.hi THEN k - qp.hi ELSE 0

\* MinimumEigenOptimizer turns the constraints into a penalty larger than the
\* range of the objective: x beats y when it violates less, or violates as
\* much and has the higher objective
Better(qp, x, y) ==
    \/ Violation(qp, x) < Violation(qp, y)
    \/ Violation(qp, x) = Violation(qp, y) /\ ObjValue(qp, x) > ObjValue(qp, y)

\* the samples of S that the sort by fval can put first
BestSamples(qp, S) == {x \in S : \A y \in S : ~Better(qp, y, x)}

RECURSIVE BitIndex(_, _, _)
\* the index of a basis state: variable i is bit i - 1
BitIndex(vs, x, i) ==
    IF i > Len(vs) THEN 0
    ELSE (IF vs[i] \in x THEN 2 ^ (i - 1) ELSE 0) + BitIndex(vs, x, i + 1)

\* optimizer.py lines 74-78: MinimumEigenOptimizer(NumPyMinimumEigensolver()):
\* a minimum of the penalised program; which of several equal minima it
\* returns is a fixed rule of the library, here the lowest or the highest
\* basis state
ExactSolve(qp, tie) ==
    LET best == BestSamples(qp, Bitstrings(qp))
    IN  CHOOSE x \in best :
            \A y \in best :
                IF tie = "low"
                THEN BitIndex(qp.vars, x, 1) <= BitIndex(qp.vars, y, 1)
                ELSE BitIndex(qp.vars, x, 1) >= BitIndex(qp.vars, y, 1)

\* optimizer.py lines 33-39, quantum_optimizer.py lines 46-51:
\* MinimumEigenOptimizer(QAOA(AerSampler(), COBYLA())) returns the best of the
\* basis states the sampler measured.  The sampler is constructed without a
\* seed and the optimizer takes none, so the measured set is not a function
\* of the inputs.  The two extremes are modelled: every basis state was
\* measured, or all shots fell on one; any other measured set S returns a
\* member of S, which the one-state set returns too.
MeasuredSets(qp) == {Bitstrings(qp)} \cup {{x} : x \in Bitstrings(qp)}

QaoaOutcomes(qp) == UNION {BestSamples(qp, S) : S \in MeasuredSets(qp)}

\* the solver of the run's strategy
UsesQaoa == strategy \in {"main_qaoa", "tools_qaoa"}

\* the program the date's optimizer call builds
DayQP ==
    IF strategy = "tools_qaoa" THEN MarkowitzQP(predictions, candidates, sigma)
    ELSE LegacyQP(predictions, candidates)

OptLocalsReset ==
    /\ predictions' = <<>>
    /\ sigma' = <<>>
    /\ candidates' = <<>>
    /\ solver_called' = FALSE
    /\ chosen_assets' = {}
    /\ chosen_again' = <<>>

\* before the first date of a driver's loop
InitOptimizer ==
    /\ opt_pc = "loop"
    /\ \/ /\ strategy = "main_classical"
          /\ eigen_tie \in {"low", "high"}
          /\ SEED = "None"
       \/ /\ strategy = "main_qaoa"
          /\ eigen_tie = "low"
          /\ SEED = "None"
       \/ /\ strategy = "tools_qaoa"
          /\ eigen_tie = "low"
          /\ SEED \in {"None", "42"}
    /\ opt_choices = <<>>
    /\ predictions = <<>>
    /\ sigma = <<>>
    /\ candidates = <<>>
    /\ solver_called = FALSE
    /\ chosen_assets = {}
    /\ chosen_again = <<>>

\* no selection loop runs
OptimizerOff ==
    /\ opt_pc = "off"
    /\ strategy = "none"
    /\ SEED = "None"
    /\ eigen_tie = "low"
    /\ opt_choices = <<>>
    /\ predictions = <<>>
    /\ sigma = <<>>
    /\ candidates = <<>>
    /\ solver_called = FALSE
    /\ chosen_assets = {}
    /\ chosen_again = <<>>

\* no backtest runs
BacktestOff ==
    /\ pc = "off"
    /\ TRANSACTION_FEE_PCT = R(0)
    /\ SLIPPAGE_PCT = R(0)
    /\ initial_capital = R(0)
    /\ n_dates = 0
    /\ price_df = <<>>
    /\ daily_choices = <<>>
    /\ cash = R(0)
    /\ positions = [a \in Assets |-> R(0)]
    /\ portfolio_history = <<>>
    /\ total_fees = R(0)
    /\ total_slippage_cost = R(0)
    /\ trade_count = 0
    /\ current_assets = {}
    /\ to_sell = {}
    /\ to_buy = {}
    /\ cash_per_asset = R(0)
    /\ cost_history = <<>>

\* main.py lines 17-19 and 31-35 with optimize_portfolio_classical: the
\* exact solver on all assets when some score is positive, else []
MainClassicalDay ==
    /\ opt_pc = "loop"
    /\ strategy = "main_classical"
    /\ Len(opt_choices) < MaxOptDays
    /\ \E preds \in [SeqToSet(MainAssets) -> ScoreValues] :
          /\ predictions' = preds
          /\ IF AnyPositive(preds, MainAssets)
             THEN /\ candidates' = MainAssets
                  /\ solver_called' = TRUE
                  /\ chosen_assets' =
                         ExactSolve(LegacyQP(preds, MainAssets), eigen_tie)
             ELSE /\ candidates' = <<>>
                  /\ solver_called' = FALSE
                  /\ chosen_assets' = {}
    /\ opt_pc' = "solved"
    /\ UNCHANGED <<strategy, SEED, eigen_tie, opt_choices, sigma, chosen_again>>
    /\ UNCHANGED <<bt_vars, aux_vars>>

\* main.py lines 17-30 with optimize_portfolio_qaoa of src/optimizer.py: QAOA
\* on the three highest scores when one of them is positive, else []
MainQaoaDay ==
    /\ opt_pc = "loop"
    /\ strategy = "main_qaoa"
    /\ Len(opt_choices) < MaxOptDays
    /\ \E preds \in [SeqToSet(MainAssets) -> ScoreValues] :
          LET top_n_preds == NLargest(preds, MainAssets, MainTopN)
          IN  /\ predictions' = preds
              /\ IF AnyPositive(preds, top_n_preds)
                 THEN /\ candidates' = top_n_preds
                      /\ solver_called' = TRUE
                      /\ chosen_assets' \in QaoaOutcomes(LegacyQP(preds, top_n_preds))
                 ELSE /\ candidates' = <<>>
                      /\ solver_called' = FALSE
                      /\ chosen_assets' = {}
    /\ opt_pc' = "solved"
    /\ UNCHANGED <<strategy, SEED, eigen_tie, opt_choices, sigma, chosen_again>>
    /\ UNCHANGED <<bt_vars, aux_vars>>

\* tools/run_backtest.py lines 61-85 with optimize_portfolio_qaoa of
\* quantum_optimizer.py: QAOA on the QAOA_TOP_N_ASSETS highest scores and the
\* covariance of their price window (the scores are not NaN here)
ToolsQaoaDay ==
    /\ opt_pc = "loop"
    /\ strategy = "tools_qaoa"
    /\ Len(opt_choices) < MaxOptDays
    /\ \E preds \in [SeqToSet(ToolsAssets) -> ScoreValues], sig \in Sigmas :
          LET top_n_preds == NLargest(preds, ToolsAssets, QAOA_TOP_N_ASSETS)
          IN  /\ predictions' = preds
              /\ sigma' = sig
              /\ candidates' = top_n_preds
              /\ solver_called' = TRUE
              /\ chosen_assets' \in QaoaOutcomes(MarkowitzQP(preds, top_n_preds, sig))
    /\ opt_pc' = "solved"
    /\ UNCHANGED <<strategy, SEED, eigen_tie, opt_choices, chosen_again>>
    /\ UNCHANGED <<bt_vars, aux_vars>>

\* the same optimizer call once more, on the same inputs, in the same process
\* (same seed)
SolveAgain ==
    /\ opt_pc = "solved"
    /\ solver_called
    /\ chosen_again = <<>>
    /\ IF UsesQaoa
       THEN \E x \in QaoaOutcomes(DayQP) : chosen_again' = <<x>>
       ELSE chosen_again' = <<ExactSolve(DayQP, eigen_tie)>>
    /\ UNCHANGED <<opt_pc, strategy, SEED, eigen_tie, opt_choices, predictions,
                   sigma, candidates, solver_called, chosen_assets>>
    /\ UNCHANGED <<bt_vars, aux_vars>>

\* main.py lines 37-38, run_backtest.py line 85: daily_choices[date] = chosen
StoreChoice ==
    /\ opt_pc = "solved"
    /\ opt_choices' = Append(opt_choices, chosen_assets)
    /\ opt_pc' = "loop"
    /\ OptLocalsReset
    /\ UNCHANGED <<strategy, SEED, eigen_tie>>
    /\ UNCHANGED <<bt_vars, aux_vars>>

\* main.py line 39: the loop is over, daily_choices is returned
OptFinish ==
    /\ opt_pc = "loop"
    /\ Len(opt_choices) = MaxOptDays
    /\ opt_pc' = "end"
    /\ UNCHANGED <<strategy, SEED, eigen_tie, opt_choices, predictions, sigma,
                   candidates, solver_called, chosen_assets, chosen_again>>
    /\ UNCHANGED <<bt_vars, aux_vars>>

\* no metric is computed
MetricsOff ==
    /\ met_pc = "off"
    /\ equity_curve = <<>>
    /\ risk_free_rate = <<0, 1>>
    /\ metrics = <<>>
    /\ max_drawdown = <<>>
    /\ sharpe_ratio = <<>>

\* no pair of walk-forward runs
WalkOff ==
    /\ wf_pc = "off"
    /\ wf_strategy = "none"
    /\ table_a = <<>>
    /\ table_b = <<>>
    /\ tamper_date = 0
    /\ wf_i = 0
    /\ choices_a = <<>>
    /\ choices_b = <<>>
    /\ equity_a = <<>>
    /\ equity_b = <<>>

\* nothing is validated
ValidationOff ==
    /\ val_pc = "off"
    /\ val_input = <<>>
    /\ quality_score = <<1, 1>>

\* no ValidationResult is being built
ResultOff ==
    /\ res_pc = "off"
    /\ results = <<>>
    /\ combined = <<>>

\* no SchemaRegistry is constructed
SchemasOff ==
    /\ reg_pc = "off"
    /\ directory = {}
    /\ schema_files = {}
    /\ _schemas = <<>>
    /\ loaded_any = FALSE
    /\ _loaded_default_schemas = FALSE
    /\ _migration_cache = {}
    /\ heap = <<>>
    /\ migrations = <<>>

\* no thread validates
ThreadsOff ==
    /\ th_pc = <<>>
    /\ th_call = <<>>
    /\ th_schema_info = <<>>
    /\ result_objects = <<>>

IngestionOff == ResultOff /\ SchemasOff /\ ThreadsOff

AuxOff ==
    MetricsOff /\ WalkOff /\ interrupt = "none" /\ ValidationOff /\ IngestionOff

InitOpt == InitOptimizer /\ BacktestOff /\ AuxOff

NextOpt ==
    \/ MainClassicalDay
    \/ MainQaoaDay
    \/ ToolsQaoaDay
    \/ SolveAgain
    \/ StoreChoice
    \/ OptFinish

\* the selection phase of a run
SpecOpt == InitOpt /\ [][NextOpt]_vars

----------------------------------------------------------------------------
(* The specifications *)

Init == InitBacktest /\ OptimizerOff /\ AuxOff

Next == NextDate \/ Sell \/ BeginBuy \/ Buy \/ EndDate \/ Finish

Spec == Init /\ [][Next]_vars

\* the same engine on price tables that may hold missing prices
NextGap == NextDateGap \/ Sell \/ BeginBuy \/ Buy \/ EndDate \/ Finish

SpecGap == Init /\ [][NextGap]_vars

----------------------------------------------------------------------------
(* Properties of the backtest engine *)

LastEquity == portfolio_history[Len(portfolio_history)]

\* what the current date has added to the cost totals so far
DayFees == RSub(total_fees, cost_history[Today].fees)

DaySlippage == RSub(total_slippage_cost, cost_history[Today].slippage)

DayTrades == trade_count - cost_history[Today].trades

\* the state immediately after the date's sells and buys
TradesOver == pc = "buy" /\ to_buy = {}

C2_ValueConservation ==
    TradesOver =>
        /\ PortfolioValue(cash, positions, TodayRow)
               = RSub(RSub(LastEquity, DayFees), DaySlippage)
        /\ (\A i \in 1..Today : price_df[i] = price_df[1]) =>
               RAdd(PortfolioValue(cash, positions, TodayRow),
                    RAdd(total_fees, total_slippage_cost)) = initial_capital

\* C3 (as stated): on a date with an empty target set no trade is recorded,
\* whatever is held, and the equity recorded for the next date at unchanged
\* prices equals the value recorded for this date.
C3_NoSignalIdempotence ==
    /\ (pc \in {"sell", "buy"} /\ TodayTarget = {}) =>
           /\ DayTrades = 0
           /\ DayFees = R(0)
           /\ DaySlippage = R(0)
    /\ (/\ Today >= 2
        /\ daily_choices[Today - 1] = {}
        /\ price_df[Today] = price_df[Today - 1]) =>
           portfolio_history[Today] = portfolio_history[Today - 1]

\* C3 (amended): on a date with an empty target set nothing is bought and
\* every asset held at its start is sold, one trade each, so that with nothing
\* held the trade count and both cost totals are unchanged; the equity
\* recorded for the next date at unchanged prices equals the value recorded
\* for this date minus the fees and slippage cost of those sells.
C3_NoSignalLiquidates ==
    /\ (TradesOver /\ TodayTarget = {}) =>
           /\ DayTrades = Cardinality(current_assets)
           /\ HeldAssets(positions) = {}
           /\ current_assets = {} => (DayFees = R(0) /\ DaySlippage = R(0))
    /\ (/\ Today >= 2
        /\ daily_choices[Today - 1] = {}
        /\ price_df[Today] = price_df[Today - 1]) =>
           portfolio_history[Today] =
               RSub(RSub(portfolio_history[Today - 1],
                         RSub(cost_history[Today].fees,
                              cost_history[Today - 1].fees)),
                    RSub(cost_history[Today].slippage,
                         cost_history[Today - 1].slippage))

\* the date after a no-signal date on which a held position was sold at a cost
C3_Witness ==
    /\ Today >= 2
    /\ daily_choices[Today - 1] = {}
    /\ price_df[Today] = price_df[Today - 1]
    /\ cost_history[Today].trades > cost_history[Today - 1].trades
    /\ RGt(cost_history[Today].fees, cost_history[Today - 1].fees)
    /\ RGt(cost_history[Today].slippage, cost_history[Today - 1].slippage)

\* C4 (as stated): a run whose selection is empty on every date records an
\* equity of initial_capital on every date and ends with no trade, no fee and
\* no slippage cost, whatever the prices are.
C4_FlatOnEmptySelections ==
    (\A i \in 1..Len(daily_choices) : daily_choices[i] = {}) =>
        /\ \A i \in 1..Len(portfolio_history) :
               portfolio_history[i] = initial_capital
        /\ trade_count = 0
        /\ total_fees = R(0)
        /\ total_slippage_cost = R(0)

C6_ScenarioA ==
    (TradesOver /\ current_assets = {} /\ TodayTarget = {"X"}) =>
        /\ cash_per_asset = LastEquity
        /\ DayFees = RMul(LastEquity, TRANSACTION_FEE_PCT)
        /\ positions["X"] =
               RDiv(RSub(LastEquity, RMul(LastEquity, TRANSACTION_FEE_PCT)),
                    RMul(TodayRow["X"], RAdd(R(1), SLIPPAGE_PCT)))
        /\ cash = R(0)
        /\ IsScenarioA =>
               /\ BuyPrice(TodayRow["X"]) = Frac(10005, 100)
               /\ cash_per_asset = R(10000)
               /\ DayFees = R(10)
               /\ positions["X"] = RDiv(R(9990), Frac(10005, 100))
               /\ cash = R(0)

\* scenario A itself, after its buy
C6_Witness ==
    /\ IsScenarioA
    /\ TradesOver
    /\ TodayTarget = {"X"}
    /\ DayTrades = 1

----------------------------------------------------------------------------
(* Properties of the per-day selection *)

\* the cardinality bounds the run's optimizer states: 1 and 2 in
\* src/optimizer.py, the budget of quantum_optimizer.py
MinAssets == IF strategy = "tools_qaoa" THEN BudgetTopN ELSE MinOneAsset

MaxAssets == IF strategy = "tools_qaoa" THEN BudgetTopN ELSE MaxTwoAssets

\* C8 (as stated): on every date the selection is empty or has between
\* min_assets and max_assets members, for every number of candidates.
C8_CardinalityInvariant ==
    opt_pc = "solved" =>
        \/ chosen_assets = {}
        \/ /\ MinAssets <= Cardinality(chosen_assets)
           /\ Cardinality(chosen_assets) <= MaxAssets

\* C9 (as stated): no asset with a score <= 0 is ever among the chosen assets.
C9_LongOnlyInvariant ==
    opt_pc = "solved" => \A a \in chosen_assets : predictions[a] > 0

\* C10 (as stated): a solver called twice on identical inputs (and, for the
\* QAOA solver, with an identical seed) returns identical selections.
C10_SolversDeterministic ==
    chosen_again # <<>> => chosen_again[1] = chosen_assets

\* the assets of the date whose score is strictly positive
PositiveScored == {a \in DOMAIN predictions : predictions[a] > 0}

\* C11 (as stated): when the optimizer requires more assets than there are
\* positive-score assets on the date, the date's selection is empty (and the
\* loop goes on to the next date).
C11_InfeasibleGivesEmpty ==
    (opt_pc = "solved" /\ Cardinality(PositiveScored) < MinAssets) =>
        chosen_assets = {}

\* C12 (as stated): on a date where no asset has a strictly positive score the
\* selection is empty and the solver was not invoked, on every driver path.
C12_NoSignalSkipsSolver ==
    (opt_pc = "solved" /\ PositiveScored = {}) =>
        (chosen_assets = {} /\ ~solver_called)

----------------------------------------------------------------------------
(* Properties of the engine's error handling *)

RECURSIVE LastKnownPrice(_, _)
\* the price of asset a at the latest of the dates 1..i that has one
LastKnownPrice(a, i) ==
    IF i = 0 THEN NaN
    ELSE IF ~IsNaN(price_df[i][a]) THEN price_df[i][a]
    ELSE LastKnownPrice(a, i - 1)

LastKnownRow == [a \in Assets |-> LastKnownPrice(a, Today)]

\* a held asset has no price on the current date
HeldPriceMissing ==
    /\ pc \in {"sell", "buy"}
    /\ \E a \in current_assets : IsNaN(TodayRow[a])

\* C13 (as stated): on a date where a held asset's price is missing, the
\* equity point is the portfolio valued at the last known prices, no sell and
\* no buy is executed, and cash and positions stay as they were.
C13_DataGapSkipsTrading ==
    HeldPriceMissing =>
        /\ DayTrades = 0
        /\ LastEquity = PortfolioValue(cash, positions, LastKnownRow)

\* run_simple_backtest takes initial_capital and config_module as they are
\* given: the percentages and capitals a caller can pass, valid or not
ConfigDays == 2

ParamValues == {Frac(-1, 2), Frac(1, 2), R(1)}

CapitalValues == {R(-8), R(0), R(8)}

InitAnyConfig ==
    /\ TRANSACTION_FEE_PCT \in ParamValues
    /\ SLIPPAGE_PCT \in ParamValues
    /\ initial_capital \in CapitalValues
    /\ n_dates = ConfigDays
    /\ pc = "idle"
    /\ price_df = <<>>
    /\ daily_choices = <<>>
    /\ cash = initial_capital
    /\ positions = [a \in Assets |-> R(0)]
    /\ portfolio_history = <<>>
    /\ total_fees = R(0)
    /\ total_slippage_cost = R(0)
    /\ trade_count = 0
    /\ current_assets = {}
    /\ to_sell = {}
    /\ to_buy = {}
    /\ cash_per_asset = R(0)
    /\ cost_history = <<>>

InitConfig == InitAnyConfig /\ OptimizerOff /\ AuxOff

\* the engine started on any configuration
SpecConfig == InitConfig /\ [][Next]_vars

\* fee_pct and slippage_pct in [0, 1) and initial_capital > 0
ValidConfig ==
    /\ RGe(TRANSACTION_FEE_PCT, R(0)) /\ RGt(R(1), TRANSACTION_FEE_PCT)
    /\ RGe(SLIPPAGE_PCT, R(0)) /\ RGt(R(1), SLIPPAGE_PCT)
    /\ RGt(initial_capital, R(0))

\* C14 (as stated): a backtest with an invalid cost or capital parameter
\* records no equity point and executes no trade.
C14_InvalidConfigRejected ==
    ~ValidConfig => (portfolio_history = <<>> /\ trade_count = 0)

----------------------------------------------------------------------------
(* The performance metrics: calculate_metrics of src/src/backtest/backtester.py
   and calculate_sharpe_ratio, calculate_max_drawdown of src/backtester.py *)

MaxCurveLen == 3

\* the values of a short equity curve
CurveValues == {1, 2, 3}

\* the curve with a single dip from 110 to 105
DipCurve == <<100, 110, 105, 120>>

\* a curve whose mean daily return is positive and below risk_free_rate / 252
SlowCurve == <<12600, 12600, 12601>>

Curves ==
    UNION {[1..n -> CurveValues] : n \in 0..MaxCurveLen} \cup {DipCurve, SlowCurve}

\* src/backtester.py line 7: risk_free_rate=0.02
DefaultRiskFree == Frac(2, 100)

\* src/backtester.py lines 12 and 14, backtester.py line 87: trading days a year
TradingDays == 252

RIsZero(x) == ~IsNaN(x) /\ x[1] = 0

RECURSIVE SeqSum(_, _)
\* s[1] + ... + s[n]
SeqSum(s, n) == IF n = 0 THEN R(0) ELSE RAdd(SeqSum(s, n - 1), s[n])

\* Series.mean(): NaN for an empty series
Mean(s) == IF Len(s) = 0 THEN NaN ELSE RDiv(SeqSum(s, Len(s)), R(Len(s)))

\* the square of Series.std() (ddof = 1): NaN for fewer than two values
Var(s) ==
    IF Len(s) < 2 THEN NaN
    ELSE LET m == Mean(s)
             sq == [i \in 1..Len(s) |-> RMul(RSub(s[i], m), RSub(s[i], m))]
         IN  RDiv(SeqSum(sq, Len(s)), R(Len(s) - 1))

\* Series.pct_change().dropna() on positive values
PctChange(v) == [i \in 1..(Len(v) - 1) |-> RDiv(RSub(v[i + 1], v[i]), v[i])]

RECURSIVE CumProd(_, _)
\* Series.cumprod() at position n
CumProd(s, n) == IF n = 1 THEN s[1] ELSE RMul(CumProd(s, n - 1), s[n])

RECURSIVE CumMax(_, _)
\* Series.cummax() at position n
CumMax(s, n) ==
    IF n = 1 THEN s[1]
    ELSE LET m == CumMax(s, n - 1) IN IF RGt(s[n], m) THEN s[n] ELSE m

RECURSIVE SeqMin(_, _)
\* Series.min() over the first n values: NaN for an empty series
SeqMin(s, n) ==
    IF n = 0 THEN NaN
    ELSE IF n = 1 THEN s[1]
    ELSE LET m == SeqMin(s, n - 1) IN IF RGt(m, s[n]) THEN s[n] ELSE m

\* round(x, 2): the nearest multiple of 1/100, a tie to the even one
Round2(x) ==
    IF IsNaN(x) THEN NaN
    ELSE LET n == 100 * x[1]
             q == n \div x[2]
             twice == 2 * (n - q * x[2])
         IN  IF twice < x[2] THEN Frac(q, 100)
             ELSE IF twice > x[2] THEN Frac(q + 1, 100)
             ELSE IF q % 2 = 0 THEN Frac(q, 100) ELSE Frac(q + 1, 100)

\* A Sharpe ratio sqrt(TradingDays) x mean / std is irrational in general; it
\* is held as the pair of its mean and its variance (std squared).  The
\* number 0 is ZeroSharpe.
SharpeValue(m, v) == [mean |-> m, var |-> v]

ZeroSharpe == [mean |-> R(0), var |-> R(1)]

\* the sign of a Sharpe ratio: "nan" when its mean or its std is NaN
SharpeSign(s) ==
    IF IsNaN(s.mean) \/ IsNaN(s.var) THEN "nan"
    ELSE IF s.mean[1] > 0 THEN "+" ELSE IF s.mean[1] < 0 THEN "-" ELSE "0"

\* src/backtester.py lines 7-14
calculate_sharpe_ratio(portfolio_values, rf) ==
    LET daily_returns == PctChange(portfolio_values)
        excess_returns ==
            [i \in 1..Len(daily_returns) |->
                RSub(daily_returns[i], RDiv(rf, R(TradingDays)))]
    IN  IF Len(daily_returns) = 0 \/ RIsZero(Var(daily_returns)) THEN ZeroSharpe
        ELSE SharpeValue(Mean(excess_returns), Var(excess_returns))

\* src/backtester.py lines 16-20
calculate_max_drawdown(portfolio_values) ==
    LET n == Len(portfolio_values)
        rolling_max == [i \in 1..n |-> CumMax(portfolio_values, i)]
        daily_drawdown ==
            [i \in 1..n |->
                RDiv(RSub(portfolio_values[i], rolling_max[i]), rolling_max[i])]
    IN  SeqMin(daily_drawdown, n)

ZeroedMetricsNaNSharpe ==
    [Final_Value |-> R(0), Total_Return_Pct |-> R(0),
     Sharpe_Ratio |-> SharpeValue(NaN, NaN), Max_Drawdown_Pct |-> R(0)]

\* backtester.py lines 76-80: the dict returned for a curve of fewer than 2
\* points
ZeroedMetrics ==
    [Final_Value |-> R(0), Total_Return_Pct |-> R(0),
     Sharpe_Ratio |-> ZeroSharpe, Max_Drawdown_Pct |-> R(0)]

\* backtester.py lines 74-101.  round(sharpe_ratio, 2) of line 98 is not
\* applied: the ratio is kept as SharpeValue.
calculate_metrics(value) ==
    IF Len(value) < 2 THEN ZeroedMetrics
    ELSE LET returns == PctChange(value)
             n == Len(returns)
             sharpe_ratio_ ==
                 IF RGt(Var(returns), R(0))
                 THEN SharpeValue(Mean(returns), Var(returns))
                 ELSE ZeroSharpe
             growth == [i \in 1..n |-> RAdd(R(1), returns[i])]
             cumulative == [i \in 1..n |-> CumProd(growth, i)]
             running_max == [i \in 1..n |-> CumMax(cumulative, i)]
             drawdown ==
                 [i \in 1..n |->
                     RDiv(RSub(cumulative[i], running_max[i]), running_max[i])]
             max_drawdown_ == SeqMin(drawdown, n)
         IN  [Final_Value |-> Round2(value[Len(value)]),
              Total_Return_Pct |->
                  Round2(RMul(RSub(RDiv(value[Len(value)], value[1]), R(1)),
                              R(100))),
              Sharpe_Ratio |-> sharpe_ratio_,
              Max_Drawdown_Pct |-> Round2(RMul(max_drawdown_, R(100)))]

\* a curve is given and nothing is computed yet
InitMetrics ==
    /\ met_pc = "input"
    /\ \E c \in Curves : equity_curve = [i \in 1..Len(c) |-> R(c[i])]
    /\ risk_free_rate = DefaultRiskFree
    /\ metrics = <<>>
    /\ max_drawdown = <<>>
    /\ sharpe_ratio = <<>>

CalculateMetrics ==
    /\ met_pc = "input"
    /\ metrics = <<>>
    /\ metrics' = <<calculate_metrics(equity_curve)>>
    /\ UNCHANGED <<met_pc, equity_curve, risk_free_rate, max_drawdown, sharpe_ratio>>
    /\ UNCHANGED <<bt_vars, opt_vars, walk_vars, interrupt, val_vars, reg_vars>>

CalculateMaxDrawdown ==
    /\ met_pc = "input"
    /\ max_drawdown = <<>>
    /\ max_drawdown' = <<calculate_max_drawdown(equity_curve)>>
    /\ UNCHANGED <<met_pc, equity_curve, risk_free_rate, metrics, sharpe_ratio>>
    /\ UNCHANGED <<bt_vars, opt_vars, walk_vars, interrupt, val_vars, reg_vars>>

CalculateSharpeRatio ==
    /\ met_pc = "input"
    /\ sharpe_ratio = <<>>
    /\ sharpe_ratio' = <<calculate_sharpe_ratio(equity_curve, risk_free_rate)>>
    /\ UNCHANGED <<met_pc, equity_curve, risk_free_rate, metrics, max_drawdown>>
    /\ UNCHANGED <<bt_vars, opt_vars, walk_vars, interrupt, val_vars, reg_vars>>

InitMet ==
    /\ InitMetrics
    /\ BacktestOff
    /\ OptimizerOff
    /\ WalkOff
    /\ interrupt = "none"
    /\ ValidationOff
    /\ IngestionOff

NextMet == CalculateMetrics \/ CalculateMaxDrawdown \/ CalculateSharpeRatio

\* the metric functions applied to a given curve
SpecMet == InitMet /\ [][NextMet]_vars

----------------------------------------------------------------------------
(* Properties of the performance metrics *)

\* max(v_1..v_t)
PointMax(v, t) ==
    CHOOSE m \in {v[s] : s \in 1..t} : \A s \in 1..t : RGe(m, v[s])

DrawdownAt(v, t) == RDiv(RSub(v[t], PointMax(v, t)), PointMax(v, t))

\* min over t of (v_t - max(v_1..v_t)) / max(v_1..v_t)
DefinedMaxDrawdown(v) ==
    CHOOSE d \in {DrawdownAt(v, t) : t \in 1..Len(v)} :
        \A t \in 1..Len(v) : RGe(DrawdownAt(v, t), d)

\* C15 (as stated): the maximum drawdown of a curve is the minimum over t of
\* (v_t - running max) / running max, the running maximum starting at the
\* first point, and is <= 0; both functions, calculate_metrics as a percentage
\* rounded to 2 places; (105 - 110) / 110 for [100, 110, 105, 120].
C15_MaxDrawdownDefinition ==
    Len(equity_curve) >= 1 =>
        /\ max_drawdown # <<>> =>
               /\ max_drawdown[1] = DefinedMaxDrawdown(equity_curve)
               /\ RGe(R(0), max_drawdown[1])
               /\ equity_curve = [i \in 1..4 |-> R(DipCurve[i])] =>
                      max_drawdown[1] = Frac(105 - 110, 110)
        /\ metrics # <<>> =>
               /\ metrics[1].Max_Drawdown_Pct =
                      Round2(RMul(DefinedMaxDrawdown(equity_curve), R(100)))
               /\ RGe(R(0), metrics[1].Max_Drawdown_Pct)

\* the sign the Sharpe ratio has by its definition
DefinedSharpeSign(v, rf) ==
    LET r == PctChange(v)
        m == RSub(Mean(r), RDiv(rf, R(TradingDays)))
    IN  IF Len(r) = 0 \/ RIsZero(Var(r)) THEN "0"
        ELSE IF m[1] > 0 THEN "+" ELSE IF m[1] < 0 THEN "-" ELSE "0"

\* C16 (as stated): the Sharpe ratio is sqrt(252) x mean(excess) / std(excess)
\* with excess_t = daily_return_t - risk_free_rate / 252, and 0 when the
\* returns have zero standard deviation or there is none; its sign is the sign
\* of mean(daily_return) - risk_free_rate / 252; both functions, on curves with
\* no return or at least two.
C16_SharpeDefinition ==
    Len(equity_curve) # 2 =>
        /\ sharpe_ratio # <<>> =>
               SharpeSign(sharpe_ratio[1]) =
                   DefinedSharpeSign(equity_curve, risk_free_rate)
        /\ metrics # <<>> =>
               SharpeSign(metrics[1].Sharpe_Ratio) =
                   DefinedSharpeSign(equity_curve, risk_free_rate)

\* C17: calculate_metrics on a curve of fewer than 2 points returns final
\* value, total return, Sharpe ratio and max drawdown all equal to 0.
C17_ZeroedMetrics ==
    (metrics # <<>> /\ Len(equity_curve) < 2) =>
        /\ metrics[1].Final_Value = R(0)
        /\ metrics[1].Total_Return_Pct = R(0)
        /\ metrics[1].Sharpe_Ratio = ZeroSharpe
        /\ metrics[1].Max_Drawdown_Pct = R(0)

\* the metrics of a curve of one point, whose value is not 0
C17_Witness ==
    /\ metrics # <<>>
    /\ Len(equity_curve) = 1
    /\ equity_curve[1] = R(3)

----------------------------------------------------------------------------
(* Walk-forward: the selection loops of src/main.py and
   src/tools/run_backtest.py followed by run_simple_backtest of
   src/backtester.py, run on two price tables side by side *)

WalkDays == 3

\* the column order of price_df
WalkAssets == <<"X", "Y">>

\* main.py line 16: start_day (10), shortened
WalkStart == 1

\* config MA_WINDOW, shortened
WalkWindow == 1

WalkCapital == R(8)

WalkRows == {row \in [Assets -> {R(1), R(2)}] : row["X"] = R(1) \/ row["Y"] = R(1)}

WalkStrategies == {"main_classical", "main_qaoa", "tools_qaoa"}

\* pct_change between two prices, in halves: an integer for the prices 1 and 2
Score2(prev, cur) == RMul(R(2), RDiv(RSub(cur, prev), prev))[1]

HistoricalSliceAhead(table, i) == SubSeq(table, 1, i + 1)

\* main.py line 18: price_data.iloc[:i], the first i rows
HistoricalSlice(table, i) == SubSeq(table, 1, i)

\* main.py line 19: predict_returns_ml(historical_slice), a function of the
\* slice alone (0 for a slice too short to fit); the fitted model is stood in
\* for by the slice's last return
MlScores(slice) ==
    [a \in Assets |->
        IF Len(slice) < 2 THEN 0
        ELSE Score2(slice[Len(slice) - 1][a], slice[Len(slice)][a])]

\* tools/run_backtest.py lines 54 and 65: momentum_df.loc[current_date], the
\* mean of the last WalkWindow returns up to the date
MomentumScores(table, d) == [a \in Assets |-> Score2(table[d - 1][a], table[d][a])]

\* the dates a strategy's loop stores a selection for, in order: main.py
\* lines 17 and 37, run_backtest.py lines 61-62
FirstDate(s) == IF s = "tools_qaoa" THEN WalkWindow + 1 ELSE WalkStart

LastDate(s) == IF s = "tools_qaoa" THEN WalkDays ELSE WalkDays - 1

\* the sampler's shots of one date: every basis state was measured, or all
\* shots fell on the state that holds the first candidate alone
WalkDraws == {"all", "first"}

\* what MinimumEigenOptimizer returns for a program and the shots of the date
SampledSelection(qp, draw) ==
    IF draw = "all" THEN ExactSolve(qp, "low") ELSE {qp.vars[1]}

\* quantum_optimizer.py lines 9-44 for a price window without returns
\* (sigma = 0)
WalkMarkowitzQP(preds, index) ==
    MarkowitzQP(preds, index, [pr \in Assets \X Assets |-> 0])

\* what the date's iteration hands to the solver and the selection that comes
\* back for the date's shots
DaySelection(s, table, d, draw) ==
    IF s = "tools_qaoa"
    THEN LET preds == MomentumScores(table, d)
             top == NLargest(preds, WalkAssets, QAOA_TOP_N_ASSETS)
         IN  [called |-> TRUE, index |-> top,
              scores |-> [i \in 1..Len(top) |-> preds[top[i]]],
              prices |-> SubSeq(table, 1, d),
              selection |-> SampledSelection(WalkMarkowitzQP(preds, top), draw)]
    ELSE LET slice == HistoricalSlice(table, d)
             preds == MlScores(slice)
             top == IF s = "main_qaoa"
                    THEN NLargest(preds, WalkAssets, MainTopN)
                    ELSE WalkAssets
         IN  IF AnyPositive(preds, top)
             THEN [called |-> TRUE, index |-> top,
                   scores |-> [i \in 1..Len(top) |-> preds[top[i]]],
                   prices |-> <<>>,
                   selection |->
                       IF s = "main_qaoa"
                       THEN SampledSelection(LegacyQP(preds, top), draw)
                       ELSE ExactSolve(LegacyQP(preds, top), "low")]
             ELSE [called |-> FALSE, index |-> <<>>, scores |-> <<>>,
                   prices |-> <<>>, selection |-> {}]

\* the selection run b stores on the tampered date
Tampered(sel) == IF sel = {"X"} THEN {} ELSE {"X"}

\* src/backtester.py lines 36-58: the value of date i from the value of the
\* previous date and the selection stored for the previous date
LegacyValue(table, choices, equity, i) ==
    IF i = 1 THEN WalkCapital
    ELSE LET prev_day == i - 1
             chosen_assets_ ==
                 IF prev_day \in DOMAIN choices THEN choices[prev_day] ELSE {}
             returns ==
                 [a \in chosen_assets_ |->
                     RDiv(RSub(table[i][a], table[prev_day][a]), table[prev_day][a])]
             daily_return ==
                 RDiv(RSum(returns, chosen_assets_), R(Cardinality(chosen_assets_)))
         IN  IF chosen_assets_ = {} THEN equity[prev_day]
             ELSE RMul(equity[prev_day], RAdd(R(1), daily_return))

\* two runs of one strategy on tables that differ in at most one row; run b
\* may also store another selection on one date
InitWalk ==
    /\ wf_pc = "select"
    /\ wf_strategy \in WalkStrategies
    /\ table_a \in [1..WalkDays -> WalkRows]
    /\ \E v \in 1..WalkDays, row \in WalkRows :
           table_b = [table_a EXCEPT ![v] = row]
    /\ tamper_date \in 0..WalkDays
    /\ wf_i = 0
    /\ choices_a = <<>>
    /\ choices_b = <<>>
    /\ equity_a = <<>>
    /\ equity_b = <<>>

\* one iteration of the selection loop in both runs, on the same shots
WalkSelectDay ==
    /\ wf_pc = "select"
    /\ LET d == IF wf_i = 0 THEN FirstDate(wf_strategy) ELSE wf_i + 1
       IN  /\ d <= LastDate(wf_strategy)
           /\ \E draw \in IF wf_strategy = "main_classical" THEN {"all"}
                           ELSE WalkDraws :
                 LET sa == DaySelection(wf_strategy, table_a, d, draw).selection
                     sb == DaySelection(wf_strategy, table_b, d, draw).selection
                 IN  /\ choices_a' = (d :> sa) @@ choices_a
                     /\ choices_b' =
                            (d :> IF d = tamper_date THEN Tampered(sb) ELSE sb)
                                @@ choices_b
           /\ wf_i' = d
    /\ UNCHANGED <<wf_pc, wf_strategy, table_a, table_b, tamper_date,
                   equity_a, equity_b>>
    /\ UNCHANGED <<bt_vars, opt_vars, met_vars, interrupt, val_vars, reg_vars>>

\* main.py line 39, run_backtest.py line 88: the loop is over and
\* daily_choices goes to run_simple_backtest
WalkSelectEnd ==
    /\ wf_pc = "select"
    /\ wf_i = LastDate(wf_strategy)
    /\ wf_pc' = "backtest"
    /\ wf_i' = 0
    /\ UNCHANGED <<wf_strategy, table_a, table_b, tamper_date, choices_a,
                   choices_b, equity_a, equity_b>>
    /\ UNCHANGED <<bt_vars, opt_vars, met_vars, interrupt, val_vars, reg_vars>>

\* src/backtester.py lines 36 and 39-58: the next point of both curves
WalkBacktestDay ==
    /\ wf_pc = "backtest"
    /\ wf_i < WalkDays
    /\ wf_i' = wf_i + 1
    /\ equity_a' =
           Append(equity_a, LegacyValue(table_a, choices_a, equity_a, wf_i + 1))
    /\ equity_b' =
           Append(equity_b, LegacyValue(table_b, choices_b, equity_b, wf_i + 1))
    /\ UNCHANGED <<wf_pc, wf_strategy, table_a, table_b, tamper_date,
                   choices_a, choices_b>>
    /\ UNCHANGED <<bt_vars, opt_vars, met_vars, interrupt, val_vars, reg_vars>>

\* src/backtester.py line 60
WalkEnd ==
    /\ wf_pc = "backtest"
    /\ wf_i = WalkDays
    /\ wf_pc' = "end"
    /\ UNCHANGED <<wf_strategy, table_a, table_b, tamper_date, wf_i,
                   choices_a, choices_b, equity_a, equity_b>>
    /\ UNCHANGED <<bt_vars, opt_vars, met_vars, interrupt, val_vars, reg_vars>>

InitWalkForward ==
    /\ InitWalk
    /\ BacktestOff
    /\ OptimizerOff
    /\ MetricsOff
    /\ interrupt = "none"
    /\ ValidationOff
    /\ IngestionOff

NextWalk == WalkSelectDay \/ WalkSelectEnd \/ WalkBacktestDay \/ WalkEnd

SpecWalk == InitWalkForward /\ [][NextWalk]_vars

\* the two tables have the same rows on the dates 1..d
AgreeUpTo(d) == \A j \in 1..d : table_a[j] = table_b[j]

\* C18: the selection stored for date d depends only on prices dated <= d and
\* the backtest applies it only from d on: two price tables that agree on
\* the dates <= d give the same selection for d, and the same equity points up
\* to d whatever is stored for d or a later date.
C18_WalkForward ==
    \A d \in 1..WalkDays :
        AgreeUpTo(d) =>
            /\ (d \in DOMAIN choices_a /\ d # tamper_date) =>
                   choices_a[d] = choices_b[d]
            /\ (d <= Len(equity_a) /\ (tamper_date = 0 \/ tamper_date >= d)) =>
                   \A j \in 1..d : equity_a[j] = equity_b[j]

\* two finished runs whose tables part after a date with a non-empty
\* selection, and whose curves part with them
C18_Witness ==
    /\ wf_pc = "end"
    /\ \E d \in 1..(WalkDays - 1) :
           /\ AgreeUpTo(d)
           /\ ~AgreeUpTo(d + 1)
           /\ d \in DOMAIN choices_a
           /\ choices_a[d] # {}
           /\ choices_a[d] = choices_b[d]
    /\ equity_a[WalkDays] # equity_b[WalkDays]

----------------------------------------------------------------------------
(* Cancelling a backtest *)

\* run_simple_backtest takes no cancellation argument and has no try block
\* (lines 7-72): a run is cancelled only by an exception raised in its frame,
\* KeyboardInterrupt, which leaves the function from wherever the loop stands
\* without reaching lines 64-72
KeyboardInterrupt ==
    /\ pc \in {"idle", "sell", "buy"}
    /\ pc' = "raised"
    /\ interrupt' = "raised"
    /\ UNCHANGED <<TRANSACTION_FEE_PCT, SLIPPAGE_PCT, initial_capital, n_dates,
                   price_df, daily_choices, cash, positions, portfolio_history,
                   total_fees, total_slippage_cost, trade_count,
                   current_assets, to_sell, to_buy, cash_per_asset, cost_history>>
    /\ UNCHANGED <<opt_vars, met_vars, walk_vars, val_vars, reg_vars>>

NextCancel == Next \/ KeyboardInterrupt

\* a backtest that may be cancelled
SpecCancel == Init /\ [][NextCancel]_vars

\* lines 64-72: equity_curve and trade_stats went to the caller
Returned == pc = "done"

\* C19 (as stated): a cancelled run returns the equity curve accumulated so
\* far with a cancellation flag, in the state of a fully completed date.
C19_CancelReturnsCurve ==
    interrupt = "raised" => (Returned /\ to_sell = {} /\ to_buy = {})

----------------------------------------------------------------------------
(* The quality score of a validation: DataValidator.validate of
   src/src/ingestion/data_validator.py and SchemaRegistry.validate_data of
   src/src/ingestion/schema_registry.py *)

MaxIssues == 16

\* data_validator.py line 587: len(required_fields)
RequiredFields == 5

RMin(a, b) == IF RGt(a, b) THEN b ELSE a

RMax(a, b) == IF RGt(b, a) THEN b ELSE a

\* the numbers of entries in the errors (or warnings) lists of the
\* completeness, range and consistency results
IssueCounts == (0..MaxIssues) \X {0, 1} \X {0, 1}

\* what a validation is run on, as far as the score depends on it
ValidationInputs ==
    [kind : {"data_validator"}, empty : {FALSE}, errors : IssueCounts,
     warnings : IssueCounts, fields : 0..RequiredFields]
    \cup
    [kind : {"data_validator"}, empty : {TRUE}, errors : IssueCounts,
     warnings : IssueCounts, fields : {0}]
    \cup
    [kind : {"schema_registry"}, empty : {FALSE},
     errors : (0..MaxIssues) \X {0} \X {0},
     warnings : (0..MaxIssues) \X {0} \X {0}, fields : {0}]

Unclamped(score) == score

\* data_validator.py line 593: max(0.0, min(1.0, score))
Clamp(score) == RMax(R(0), RMin(R(1), score))

\* data_validator.py lines 565-590: the score before it is bounded
RawComprehensiveScore(in) ==
    LET total_errors == in.errors[1] + in.errors[2] + in.errors[3]
        error_penalty == RMin(RMul(R(total_errors), Frac(1, 10)), Frac(5, 10))
        total_warnings == in.warnings[1] + in.warnings[2] + in.warnings[3]
        warning_penalty == RMin(RMul(R(total_warnings), Frac(2, 100)), Frac(3, 10))
        score == RSub(RSub(R(1), error_penalty), warning_penalty)
        completeness_bonus ==
            RMul(RDiv(R(in.fields), R(RequiredFields)), Frac(1, 10))
    IN  IF total_errors = 0 /\ total_warnings = 0
        THEN RAdd(score, completeness_bonus)
        ELSE score

\* data_validator.py lines 546-593
_calculate_comprehensive_quality_score(in) ==
    IF in.empty THEN R(0) ELSE Clamp(RawComprehensiveScore(in))

\* schema_registry.py lines 353-366
_calculate_quality_score(in) ==
    LET error_penalty == RMul(R(in.errors[1]), Frac(2, 10))
        score == RMax(R(0), RSub(R(1), error_penalty))
        warning_penalty == RMul(R(in.warnings[1]), Frac(1, 10))
    IN  RMax(R(0), RSub(score, warning_penalty))

InitValidation ==
    /\ val_pc = "input"
    /\ val_input \in ValidationInputs
    /\ quality_score = R(1)

\* data_validator.py lines 320-366: validate sets result.quality_score
DataValidatorValidate ==
    /\ val_pc = "input"
    /\ val_input.kind = "data_validator"
    /\ quality_score' = _calculate_comprehensive_quality_score(val_input)
    /\ val_pc' = "scored"
    /\ UNCHANGED val_input
    /\ UNCHANGED <<bt_vars, opt_vars, met_vars, walk_vars, interrupt, reg_vars>>

\* schema_registry.py lines 66-126: validate_data sets result.quality_score
RegistryValidateData ==
    /\ val_pc = "input"
    /\ val_input.kind = "schema_registry"
    /\ quality_score' = _calculate_quality_score(val_input)
    /\ val_pc' = "scored"
    /\ UNCHANGED val_input
    /\ UNCHANGED <<bt_vars, opt_vars, met_vars, walk_vars, interrupt, reg_vars>>

InitVal ==
    /\ InitValidation
    /\ BacktestOff
    /\ OptimizerOff
    /\ MetricsOff
    /\ WalkOff
    /\ interrupt = "none"
    /\ IngestionOff

NextVal == DataValidatorValidate \/ RegistryValidateData

SpecVal == InitVal /\ [][NextVal]_vars

\* C20: the quality score of every validation result is within [0, 1].
C20_QualityScoreBounds ==
    val_pc = "scored" => (RGe(quality_score, R(0)) /\ RGe(R(1), quality_score))

\* a validated frame whose score before bounding is above 1, and a validated
\* document whose penalties exceed 1
C20_Witness ==
    /\ val_pc = "scored"
    /\ \/ /\ val_input.kind = "data_validator"
          /\ ~val_input.empty
          /\ RGt(RawComprehensiveScore(val_input), R(1))
          /\ quality_score = R(1)
       \/ /\ val_input.kind = "schema_registry"
          /\ val_input.errors[1] > 5
          /\ quality_score = R(0)

----------------------------------------------------------------------------
(* ValidationResult of src/src/ingestion/models.py, and the result that
   DataValidator.validate combines from three of them *)

MaxEntries == 1

\* two of the members of ValidationErrorType (models.py lines 23-30)
ErrorTypes == {"missing_field", "invalid_range"}

WarningFields == {"high_price"}

Validators == {"completeness", "range", "consistency"}

\* models.py lines 56-59: the dataclass constructor, every list a new one
ValidationResult(valid) ==
    [is_valid |-> valid, errors |-> <<>>, warnings |-> <<>>,
     quality_score |-> R(1)]

add_error_append_only(result, error_type, field_name) ==
    [result EXCEPT !.errors = Append(@, <<error_type, field_name>>)]

\* models.py lines 61-70
add_error(result, error_type, field_name) ==
    [result EXCEPT !.errors = Append(@, <<error_type, field_name>>),
                   !.is_valid = FALSE]

\* models.py lines 72-76
add_warning(result, field_name) ==
    [result EXCEPT !.warnings = Append(@, field_name)]

\* data_validator.py lines 56, 126, 289: each validation starts from
\* ValidationResult(is_valid=True)
InitResult ==
    /\ res_pc = "build"
    /\ results = [v \in Validators |-> ValidationResult(TRUE)]
    /\ combined = <<>>

\* one result.add_error(...) of a validation
AddError ==
    /\ res_pc = "build"
    /\ \E v \in Validators, t \in ErrorTypes :
           /\ Len(results[v].errors) < MaxEntries
           /\ results' = [results EXCEPT ![v] = add_error(@, t, v)]
    /\ UNCHANGED <<res_pc, combined>>
    /\ UNCHANGED <<bt_vars, opt_vars, met_vars, walk_vars, interrupt, val_vars,
                   schema_vars, thread_vars>>

\* one result.add_warning(...) of a validation
AddWarning ==
    /\ res_pc = "build"
    /\ \E v \in Validators, f \in WarningFields :
           /\ Len(results[v].warnings) < MaxEntries
           /\ results' = [results EXCEPT ![v] = add_warning(@, f)]
    /\ UNCHANGED <<res_pc, combined>>
    /\ UNCHANGED <<bt_vars, opt_vars, met_vars, walk_vars, interrupt, val_vars,
                   schema_vars, thread_vars>>

\* data_validator.py lines 333-350: the three results are returned and
\* validate extends a new result's lists with theirs, then sets the flag
DataValidatorCombine ==
    /\ res_pc = "build"
    /\ LET errors == results["completeness"].errors \o results["range"].errors
                         \o results["consistency"].errors
           warnings == results["completeness"].warnings
                           \o results["range"].warnings
                           \o results["consistency"].warnings
       IN  combined' = <<[ValidationResult(TRUE) EXCEPT
                              !.errors = errors,
                              !.warnings = warnings,
                              !.is_valid = (Len(errors) = 0)]>>
    /\ res_pc' = "combined"
    /\ UNCHANGED results
    /\ UNCHANGED <<bt_vars, opt_vars, met_vars, walk_vars, interrupt, val_vars,
                   schema_vars, thread_vars>>

InitRes ==
    /\ InitResult
    /\ BacktestOff
    /\ OptimizerOff
    /\ MetricsOff
    /\ WalkOff
    /\ interrupt = "none"
    /\ ValidationOff
    /\ SchemasOff
    /\ ThreadsOff

NextRes == AddError \/ AddWarning \/ DataValidatorCombine

SpecRes == InitRes /\ [][NextRes]_vars

ValidIffNoErrors(result) == result.is_valid <=> (result.errors = <<>>)

\* C21: a ValidationResult created valid and empty is valid exactly when
\* its error list is empty, whatever add_error and add_warning calls were
\* made on it (so a warning never invalidates and an error always does),
\* and the result DataValidator.validate combines obeys the same rule.
C21_ValidIffNoErrors ==
    /\ res_pc # "off" => \A v \in Validators : ValidIffNoErrors(results[v])
    /\ combined # <<>> => ValidIffNoErrors(combined[1])

\* a validation with warnings only, one with an error, and their combination
C21_Witness ==
    /\ res_pc = "combined"
    /\ results["consistency"].warnings # <<>>
    /\ results["consistency"].is_valid
    /\ results["range"].errors # <<>>
    /\ ~results["range"].is_valid
    /\ ~combined[1].is_valid
    /\ combined[1].warnings # <<>>

----------------------------------------------------------------------------
(* SchemaRegistry of src/src/ingestion/schema_registry.py: the constructor
   and _load_schemas *)

\* the files a schema directory may hold.  kind "valid" is a JSON object;
\* "unparsable" makes json.load raise; "unhashable_version" is a JSON object
\* whose "version" is a list, so that line 258 raises after line 256 ran;
\* "other" is a file the glob of line 217 does not match.  schema "strict"
\* stands for a schema with required fields and minima, "open" for
\* {"type": "object"}.
SchemaFile(name, kind, asset_type, version, schema, migration_paths) ==
    [name |-> name, kind |-> kind, asset_type |-> asset_type,
     version |-> version, schema |-> schema,
     migration_paths |-> migration_paths]

\* the two files of the test fixture (test_schema_registry.py lines 31-65)
CryptoV1 ==
    SchemaFile("crypto_v1.json", "valid", "cryptocurrency", "1.0.0", "strict", {})

CryptoV2 ==
    SchemaFile("crypto_v2.json", "valid", "cryptocurrency", "2.0.0", "strict",
               {"1.0.0->2.0.0"})

\* a 1.0.0 schema that registers the step to 2.0.0 itself
CryptoV1Step ==
    SchemaFile("crypto_v1_step.json", "valid", "cryptocurrency", "1.0.0",
               "strict", {"1.0.0->2.0.0"})

TestSchema == SchemaFile("test.json", "valid", "test", "1.0.0", "open", {})

InvalidFile == SchemaFile("invalid.json", "unparsable", "", "", "", {})

OddFile ==
    SchemaFile("odd.json", "unhashable_version", "odd", "", "open", {})

NotesFile == SchemaFile("notes.txt", "other", "", "", "", {})

Files ==
    {CryptoV1, CryptoV2, CryptoV1Step, TestSchema, InvalidFile, OddFile, NotesFile}

\* lines 268-306: the file _create_default_schemas writes
DefaultFile ==
    SchemaFile("cryptocurrency_v1.0.0.json", "valid", "cryptocurrency", "1.0.0",
               "strict", {})

\* a missing directory, or a directory with any of the files
Directories == [exists : {TRUE}, files : SUBSET Files]
                   \cup [exists : {FALSE}, files : {{}}]

\* line 217: self.schema_directory.glob("*.json")
Glob(dir) == {f \in dir.files : f.kind # "other"}

\* lines 246-252: the SchemaInfo of a file
SchemaInfo(file) ==
    [schema |-> file.schema, migration_paths |-> file.migration_paths]

\* lines 236-260: the registry after _load_schema_file, and whether it raised
_load_schema_file(schemas, file) ==
    IF file.kind = "unparsable"
    THEN [raised |-> TRUE, schemas |-> schemas]
    ELSE LET known == IF file.asset_type \in DOMAIN schemas
                      THEN schemas
                      ELSE (file.asset_type :> <<>>) @@ schemas
         IN  IF file.kind = "unhashable_version"
             THEN [raised |-> TRUE, schemas |-> known]
             ELSE [raised |-> FALSE,
                   schemas |-> [known EXCEPT ![file.asset_type] =
                                   (file.version :> SchemaInfo(file)) @@ @]]

\* lines 262-314: the registry and the flag after _create_default_schemas
_create_default_schemas(schemas, loaded_default) ==
    IF loaded_default
    THEN [schemas |-> schemas, loaded_default |-> TRUE]
    ELSE [schemas |-> _load_schema_file(schemas, DefaultFile).schemas,
          loaded_default |-> TRUE]

DefaultsWhenDirectoryEmpty(any_loaded) == FALSE

\* line 232: if not loaded_any
DefaultsNeeded(any_loaded) == ~any_loaded

\* lines 52-64: the constructor, up to the call of _load_schemas
InitRegistry ==
    /\ reg_pc = "glob"
    /\ directory \in Directories
    /\ schema_files = {}
    /\ _schemas = <<>>
    /\ loaded_any = FALSE
    /\ _loaded_default_schemas = FALSE
    /\ _migration_cache = {}
    /\ heap = <<>>
    /\ migrations = <<>>

\* lines 214-223: mkdir, the glob, and the defaults of a directory without
\* schema files
LoadSchemasGlob ==
    /\ reg_pc = "glob"
    /\ IF Glob(directory) = {}
       THEN LET made == _create_default_schemas(_schemas, _loaded_default_schemas)
            IN  /\ _schemas' = made.schemas
                /\ _loaded_default_schemas' = made.loaded_default
                /\ reg_pc' = "ready"
                /\ UNCHANGED schema_files
       ELSE /\ schema_files' = Glob(directory)
            /\ reg_pc' = "load"
            /\ UNCHANGED <<_schemas, _loaded_default_schemas>>
    /\ UNCHANGED <<directory, loaded_any, _migration_cache, heap, migrations>>
    /\ UNCHANGED <<bt_vars, opt_vars, met_vars, walk_vars, interrupt, val_vars,
                   res_vars, thread_vars>>

\* lines 224-229: one iteration of the loop, in whatever order glob yields
LoadSchemaFile ==
    /\ reg_pc = "load"
    /\ \E file \in schema_files :
           LET loaded == _load_schema_file(_schemas, file)
           IN  /\ _schemas' = loaded.schemas
               /\ loaded_any' = (loaded_any \/ ~loaded.raised)
               /\ schema_files' = schema_files \ {file}
    /\ UNCHANGED <<reg_pc, directory, _loaded_default_schemas, _migration_cache,
                   heap, migrations>>
    /\ UNCHANGED <<bt_vars, opt_vars, met_vars, walk_vars, interrupt, val_vars,
                   res_vars, thread_vars>>

\* lines 231-234: after the loop
LoadSchemasEnd ==
    /\ reg_pc = "load"
    /\ schema_files = {}
    /\ IF DefaultsNeeded(loaded_any)
       THEN LET made == _create_default_schemas(_schemas, _loaded_default_schemas)
            IN  /\ _schemas' = made.schemas
                /\ _loaded_default_schemas' = made.loaded_default
       ELSE UNCHANGED <<_schemas, _loaded_default_schemas>>
    /\ reg_pc' = "ready"
    /\ UNCHANGED <<directory, schema_files, loaded_any, _migration_cache, heap,
                   migrations>>
    /\ UNCHANGED <<bt_vars, opt_vars, met_vars, walk_vars, interrupt, val_vars,
                   res_vars, thread_vars>>

InitLoad ==
    /\ InitRegistry
    /\ BacktestOff
    /\ OptimizerOff
    /\ MetricsOff
    /\ WalkOff
    /\ interrupt = "none"
    /\ ValidationOff
    /\ ResultOff
    /\ ThreadsOff

NextLoad == LoadSchemasGlob \/ LoadSchemaFile \/ LoadSchemasEnd

SpecLoad == InitLoad /\ [][NextLoad]_vars

\* the (asset type, version) pairs the registry holds a schema for
HeldSchemas(schemas) ==
    UNION {{<<a, v>> : v \in DOMAIN schemas[a]} : a \in DOMAIN schemas}

ValidFiles(dir) == {f \in dir.files : f.kind = "valid"}

\* C23: a constructed registry holds at least one schema; every valid
\* schema file of the directory is loaded, failing files notwithstanding;
\* and the default cryptocurrency 1.0.0 schema is created exactly when no
\* file was loaded successfully.
C23_RegistryNeverEmpty ==
    reg_pc = "ready" =>
        /\ HeldSchemas(_schemas) # {}
        /\ \A f \in ValidFiles(directory) :
               <<f.asset_type, f.version>> \in HeldSchemas(_schemas)
        /\ _loaded_default_schemas <=> (ValidFiles(directory) = {})
        /\ _loaded_default_schemas =>
               <<"cryptocurrency", "1.0.0">> \in HeldSchemas(_schemas)

\* a directory with a valid file and two failing ones, loaded without the
\* default; and a directory with failing files only, given the default
C23_Witness ==
    /\ reg_pc = "ready"
    /\ \/ /\ directory.files = {TestSchema, InvalidFile, OddFile}
          /\ HeldSchemas(_schemas) = {<<"test", "1.0.0">>}
          /\ ~_loaded_default_schemas
       \/ /\ directory.files = {InvalidFile, OddFile}
          /\ HeldSchemas(_schemas) = {<<"cryptocurrency", "1.0.0">>}
          /\ "odd" \in DOMAIN _schemas
          /\ _loaded_default_schemas

----------------------------------------------------------------------------
(* SchemaRegistry.migrate_data on a constructed registry *)

MaxCalls == 2

Versions == {"1.0.0", "2.0.0", "9.9.9"}

AssetTypes == {"cryptocurrency", "nonexistent"}

\* the dicts the caller passes (test_schema_registry.py line 181, and {})
InputDicts == <<("asset" :> "BTC") @@ ("close_price" :> 50000), <<>>>>

\* the registry built from files, in the order given
RECURSIVE LoadedFrom(_)
LoadedFrom(files) ==
    IF files = <<>>
    THEN <<>>
    ELSE _load_schema_file(LoadedFrom(SubSeq(files, 1, Len(files) - 1)),
                           files[Len(files)]).schemas

\* what the constructor leaves: over the two files of the test fixture,
\* over files with a registered step from 1.0.0, and over a missing directory
ConstructedRegistries ==
    {[directory |-> [exists |-> TRUE, files |-> {CryptoV1, CryptoV2}],
      schemas |-> LoadedFrom(<<CryptoV1, CryptoV2>>),
      loaded_any |-> TRUE, loaded_default |-> FALSE],
     [directory |-> [exists |-> TRUE,
                     files |-> {CryptoV1Step, CryptoV2, TestSchema}],
      schemas |-> LoadedFrom(<<CryptoV1Step, CryptoV2, TestSchema>>),
      loaded_any |-> TRUE, loaded_default |-> FALSE],
     [directory |-> [exists |-> FALSE, files |-> {}],
      schemas |-> _create_default_schemas(<<>>, FALSE).schemas,
      loaded_any |-> FALSE, loaded_default |-> TRUE]}

\* the registry once its constructor returned
Constructed(registry) ==
    /\ reg_pc = "ready"
    /\ directory = registry.directory
    /\ schema_files = {}
    /\ _schemas = registry.schemas
    /\ loaded_any = registry.loaded_any
    /\ _loaded_default_schemas = registry.loaded_default
    /\ _migration_cache = {}

\* line 316-318
_get_schema_info(schemas, asset_type, version) ==
    IF asset_type \in DOMAIN schemas /\ version \in DOMAIN schemas[asset_type]
    THEN <<schemas[asset_type][version]>>
    ELSE <<>>

\* lines 368-387: the direct step, when the source schema registers it
_find_migration_path(schemas, asset_type, from_version, to_version) ==
    LET from_schema == _get_schema_info(schemas, asset_type, from_version)
        to_schema == _get_schema_info(schemas, asset_type, to_version)
        migration_key == from_version \o "->" \o to_version
    IN  IF from_schema = <<>> \/ to_schema = <<>>
        THEN <<>>
        ELSE IF migration_key \in from_schema[1].migration_paths
             THEN <<migration_key>>
             ELSE <<>>

dict_alias(objects, ref) == [heap |-> objects, ref |-> ref]

\* dict.copy(): a new object with the same items
dict_copy(objects, ref) ==
    [heap |-> Append(objects, objects[ref]), ref |-> Len(objects) + 1]

\* line 389-398: a migration step returns data.copy()
_apply_migration_step(objects, ref, step) == dict_copy(objects, ref)

RECURSIVE ApplySteps(_, _, _)
ApplySteps(objects, ref, path) ==
    IF path = <<>>
    THEN [heap |-> objects, ref |-> ref]
    ELSE LET done == _apply_migration_step(objects, ref, path[1])
         IN  ApplySteps(done.heap, done.ref, Tail(path))

\* lines 161-189: the heap after the call and the object returned
migrate_data(schemas, objects, data, from_version, to_version, asset_type) ==
    IF from_version = to_version
    THEN dict_copy(objects, data)
    ELSE LET migration_path ==
                 _find_migration_path(schemas, asset_type, from_version, to_version)
         IN  IF migration_path = <<>>
             THEN dict_copy(objects, data)
             ELSE LET migrated_data == dict_copy(objects, data)
                  IN  ApplySteps(migrated_data.heap, migrated_data.ref,
                                 migration_path)

\* a registry after its construction, and the dicts of the caller
InitMigration ==
    /\ \E registry \in ConstructedRegistries : Constructed(registry)
    /\ heap = InputDicts
    /\ migrations = <<>>

\* lines 142-189: one call of migrate_data; the cache is only read (line 163)
MigrateData ==
    /\ reg_pc = "ready"
    /\ Len(migrations) < MaxCalls
    /\ \E data \in DOMAIN InputDicts, from_version \in Versions,
          to_version \in Versions, asset_type \in AssetTypes :
           LET cache_key == <<asset_type, from_version, to_version>>
               out == migrate_data(_schemas, heap, data, from_version,
                                   to_version, asset_type)
           IN  /\ heap' = out.heap
               /\ migrations' = Append(migrations,
                      [data |-> data, from_version |-> from_version,
                       to_version |-> to_version, asset_type |-> asset_type,
                       returned |-> out.ref,
                       cached |-> cache_key \in _migration_cache,
                       input_before |-> heap[data],
                       schemas_before |-> _schemas])
    /\ UNCHANGED <<reg_pc, directory, schema_files, _schemas, loaded_any,
                   _loaded_default_schemas, _migration_cache>>
    /\ UNCHANGED <<bt_vars, opt_vars, met_vars, walk_vars, interrupt, val_vars,
                   res_vars, thread_vars>>

InitMig ==
    /\ InitMigration
    /\ BacktestOff
    /\ OptimizerOff
    /\ MetricsOff
    /\ WalkOff
    /\ interrupt = "none"
    /\ ValidationOff
    /\ ResultOff
    /\ ThreadsOff

SpecMig == InitMig /\ [][MigrateData]_vars

CacheKey(m) == <<m.asset_type, m.from_version, m.to_version>>

NoPathRegistered(m) ==
    _find_migration_path(m.schemas_before, m.asset_type, m.from_version,
                         m.to_version) = <<>>

\* C22: migrate_data returns a dict equal to its input when the versions
\* are equal or no migration path is registered; what it returns is always
\* a new object, never the input; and neither the input nor the registry's
\* schemas are changed.
C22_MigrateCopies ==
    \A i \in DOMAIN migrations :
        LET m == migrations[i]
        IN  /\ (m.from_version = m.to_version \/ NoPathRegistered(m)) =>
                   heap[m.returned] = m.input_before
            /\ m.returned # m.data
            /\ m.returned \notin DOMAIN InputDicts
            /\ heap[m.data] = m.input_before
            /\ _schemas = m.schemas_before

\* a migration between equal versions, and one for an unknown asset type,
\* on a registry where the step is registered for cryptocurrency
C22_Witness ==
    /\ Len(migrations) = 2
    /\ directory.files = {CryptoV1Step, CryptoV2, TestSchema}
    /\ migrations[1].from_version = migrations[1].to_version
    /\ migrations[2].from_version = "1.0.0"
    /\ migrations[2].to_version = "2.0.0"
    /\ migrations[2].asset_type = "nonexistent"
    /\ migrations[2].data = migrations[1].data
    /\ migrations[2].returned # migrations[1].returned
    /\ heap[migrations[2].returned] = InputDicts[1]

\* C29 (as stated): after a migrate_data call between different versions
\* the migration cache holds the key (asset_type, from_version, to_version),
\* and a later identical call uses that entry and returns the same result.
C29_MigrationCached ==
    \A i \in DOMAIN migrations :
        LET m == migrations[i]
        IN  m.from_version # m.to_version =>
                /\ CacheKey(m) \in _migration_cache
                /\ \A j \in DOMAIN migrations :
                       (j > i /\ CacheKey(migrations[j]) = CacheKey(m)
                              /\ migrations[j].data = m.data) =>
                           /\ migrations[j].cached
                           /\ heap[migrations[j].returned] = heap[m.returned]

----------------------------------------------------------------------------
(* SchemaRegistry.validate_data called from several threads on one registry *)

Threads == {"t1", "t2"}

\* open, high, low, close of a document: consistent, high below open, and
\* low above high (test_data_validator.py lines 228-240, scaled down)
OhlcValues == {<<2, 3, 1, 2>>, <<3, 2, 1, 2>>, <<2, 3, 4, 2>>}

\* the documents validated, as far as the schemas and the custom
\* validations look at them
Documents == [ohlc : OhlcValues, volume : {-1, 1}]

ValidateCalls ==
    [data : Documents, schema_version : {"1.0.0", "9.9.9"},
     asset_type : {"cryptocurrency", "test"}]

Max4(a, b, c, d) ==
    CHOOSE m \in {a, b, c, d} : \A x \in {a, b, c, d} : m >= x

Min4(a, b, c, d) ==
    CHOOSE m \in {a, b, c, d} : \A x \in {a, b, c, d} : m =< x

\* line 97: jsonschema.validate; a "strict" schema puts minimum 0 on volume
\* (schema_registry.py line 294), an "open" one accepts every object
SchemaViolation(schema_info, data) ==
    schema_info.schema = "strict" /\ data.volume < 0

\* lines 320-351: the OHLC warnings, then the volume error
_perform_custom_validations(data, result) ==
    LET open_price == data.ohlc[1]
        high == data.ohlc[2]
        low == data.ohlc[3]
        close == data.ohlc[4]
        r1 == IF high < Max4(open_price, close, low, low)
              THEN add_warning(result, "high_price")
              ELSE result
        r2 == IF low > Min4(open_price, close, high, high)
              THEN add_warning(r1, "low_price")
              ELSE r1
    IN  IF data.volume < 0
        THEN add_error(r2, "invalid_range", "volume")
        ELSE r2

\* lines 95-116: the try block
CheckedResult(schema_info, data, result) ==
    IF SchemaViolation(schema_info, data)
    THEN add_error(result, "schema_violation", "volume")
    ELSE _perform_custom_validations(data, result)

\* the most entries a list of a result is scored with
MaxListed == 4

\* lines 353-366, for every pair of list lengths
QualityScores ==
    [e \in 0..MaxListed, w \in 0..MaxListed |->
        _calculate_quality_score([errors |-> <<e, 0, 0>>,
                                  warnings |-> <<w, 0, 0>>])]

\* lines 92 and 119: result.quality_score = self._calculate_quality_score(result)
Scored(result) ==
    [result EXCEPT !.quality_score =
        QualityScores[Len(result.errors), Len(result.warnings)]]

\* lines 66-126: validate_data run alone
validate_data(schemas, call) ==
    LET schema_info ==
            _get_schema_info(schemas, call.asset_type, call.schema_version)
    IN  IF schema_info = <<>>
        THEN Scored(add_error(ValidationResult(TRUE), "schema_violation", "schema"))
        ELSE Scored(CheckedResult(schema_info[1], call.data,
                                  ValidationResult(TRUE)))

ResultObjectShared(t) == "t1"

\* line 83: the ValidationResult a call constructs is its own object
ResultObject(t) == t

\* the threads are started on a constructed registry
InitThreads ==
    /\ th_pc = [t \in Threads |-> "start"]
    /\ th_call = [t \in Threads |-> <<>>]
    /\ th_schema_info = [t \in Threads |-> <<>>]
    /\ result_objects = <<>>
    /\ \E registry \in ConstructedRegistries :
           /\ "test" \in DOMAIN registry.schemas
           /\ Constructed(registry)
    /\ heap = <<>>
    /\ migrations = <<>>

ThreadFrame ==
    /\ UNCHANGED <<bt_vars, opt_vars, met_vars, walk_vars, interrupt, val_vars,
                   res_vars, schema_vars>>

\* test_schema_registry.py line 454: a thread calls validate_data
ThreadCall(t) ==
    /\ th_pc[t] = "start"
    /\ \E call \in ValidateCalls : th_call' = [th_call EXCEPT ![t] = call]
    /\ th_pc' = [th_pc EXCEPT ![t] = "call"]
    /\ UNCHANGED <<th_schema_info, result_objects>>
    /\ ThreadFrame

\* line 83
ThreadCreateResult(t) ==
    /\ th_pc[t] = "call"
    /\ result_objects' = (ResultObject(t) :> ValidationResult(TRUE)) @@ result_objects
    /\ th_pc' = [th_pc EXCEPT ![t] = "created"]
    /\ UNCHANGED <<th_call, th_schema_info>>
    /\ ThreadFrame

\* lines 85-93: the lookup, and the early return when no schema is found
ThreadLookup(t) ==
    /\ th_pc[t] = "created"
    /\ LET schema_info == _get_schema_info(_schemas, th_call[t].asset_type,
                                           th_call[t].schema_version)
       IN  /\ th_schema_info' = [th_schema_info EXCEPT ![t] = schema_info]
           /\ IF schema_info = <<>>
              THEN /\ result_objects' = [result_objects EXCEPT
                          ![ResultObject(t)] =
                              Scored(add_error(@, "schema_violation", "schema"))]
                   /\ th_pc' = [th_pc EXCEPT ![t] = "returned"]
              ELSE /\ th_pc' = [th_pc EXCEPT ![t] = "found"]
                   /\ UNCHANGED result_objects
    /\ UNCHANGED th_call
    /\ ThreadFrame

\* lines 95-116
ThreadCheck(t) ==
    /\ th_pc[t] = "found"
    /\ result_objects' = [result_objects EXCEPT
           ![ResultObject(t)] =
               CheckedResult(th_schema_info[t][1], th_call[t].data, @)]
    /\ th_pc' = [th_pc EXCEPT ![t] = "checked"]
    /\ UNCHANGED <<th_call, th_schema_info>>
    /\ ThreadFrame

\* lines 119-126
ThreadScore(t) ==
    /\ th_pc[t] = "checked"
    /\ result_objects' = [result_objects EXCEPT
           ![ResultObject(t)] = Scored(@)]
    /\ th_pc' = [th_pc EXCEPT ![t] = "returned"]
    /\ UNCHANGED <<th_call, th_schema_info>>
    /\ ThreadFrame

ThreadStep(t) ==
    \/ ThreadCall(t)
    \/ ThreadCreateResult(t)
    \/ ThreadLookup(t)
    \/ ThreadCheck(t)
    \/ ThreadScore(t)

InitThr ==
    /\ InitThreads
    /\ BacktestOff
    /\ OptimizerOff
    /\ MetricsOff
    /\ WalkOff
    /\ interrupt = "none"
    /\ ValidationOff
    /\ ResultOff

NextThr == \E t \in Threads : ThreadStep(t)

\* the interpreter keeps scheduling every thread that can run
SpecThr == InitThr /\ [][NextThr]_vars /\ \A t \in Threads : WF_vars(ThreadStep(t))

\* what a call has in hand is what the same call has at that point when it
\* runs alone
AsAlone(t) ==
    LET alone == validate_data(_schemas, th_call[t])
        mine == result_objects[ResultObject(t)]
    IN  /\ th_pc[t] = "returned" => mine = alone
        /\ th_pc[t] = "checked" =>
               /\ mine.errors = alone.errors
               /\ mine.warnings = alone.warnings
               /\ mine.is_valid = alone.is_valid

AllReturned == \A t \in Threads : th_pc[t] = "returned"

\* C24: in every interleaving of concurrent validate_data calls each call
\* returns what it returns when run alone, the registry's _schemas and
\* _migration_cache are never written, and every call completes.
C24_ConcurrentValidation ==
    /\ [](\A t \in Threads : AsAlone(t))
    /\ [][_schemas' = _schemas /\ _migration_cache' = _migration_cache]_vars
    /\ <>AllReturned

\* two calls in flight at once, one with a warning only and one with an error
C24_Witness ==
    /\ \A t \in Threads : th_pc[t] = "checked"
    /\ result_objects["t1"].is_valid
    /\ result_objects["t1"].warnings # <<>>
    /\ ~result_objects["t2"].is_valid
    /\ result_objects["t2"].errors # <<>>

----------------------------------------------------------------------------
(* The Sell and Buy steps of a date, against the state the date started from *)

\* cash and positions as the date's Value step saw them
DayStart == cost_history[Today]

\* the assets with a positive quantity when the date started
HeldAtStart == {a \in Assets : RGt(DayStart.positions[a], R(0))}

SoldToday == HeldAtStart \ TodayTarget

KeptToday == HeldAtStart \cap TodayTarget

NewToday == TodayTarget \ HeldAtStart

\* the sell loop of the date is over, the buy step has not begun
SellOver == pc = "sell" /\ to_sell = {}

\* qty x price x (1 - slippage_pct) x (1 - fee_pct) for the start quantity
NetSale(a) ==
    RMul(RMul(RMul(DayStart.positions[a], TodayRow[a]),
              RSub(R(1), SLIPPAGE_PCT)),
         RSub(R(1), TRANSACTION_FEE_PCT))

\* C25: after the Sell step every asset held at the start of the date and
\* not in its target set has quantity 0, the cash has grown by
\* qty x price x (1 - slippage_pct) x (1 - fee_pct) for each of them, the
\* trade counter by their number, and the positions of the assets in the
\* target set are as they were.
C25_SellStep ==
    SellOver =>
        /\ \A a \in SoldToday : positions[a] = R(0)
        /\ cash = RAdd(DayStart.cash,
                       RSum([a \in Assets |-> NetSale(a)], SoldToday))
        /\ DayTrades = Cardinality(SoldToday)
        /\ \A a \in TodayTarget : positions[a] = DayStart.positions[a]

\* a date that sells one asset and keeps the other, with fee and slippage
C25_Witness ==
    /\ SellOver
    /\ SoldToday = {"X"}
    /\ KeptToday = {"Y"}
    /\ RGt(TRANSACTION_FEE_PCT, R(0))
    /\ RGt(SLIPPAGE_PCT, R(0))
    /\ RGt(cash, DayStart.cash)

\* C26: an asset held at the start of a date and in the date's target set
\* keeps its quantity through the Sell and Buy steps; no trade or fee is
\* recorded for it and no cash is spent on it: the date's trades are its
\* sells and its new buys, the date's fees are theirs, and the cash the Buy
\* step takes is one allocation per new asset.
C26_HeldTargetUntouched ==
    /\ pc \in {"sell", "buy"} =>
           \A a \in KeptToday : positions[a] = DayStart.positions[a]
    /\ TradesOver =>
           LET after_sell == RAdd(DayStart.cash,
                                  RSum([a \in Assets |-> NetSale(a)], SoldToday))
               new == Cardinality(NewToday)
           IN  /\ DayTrades = Cardinality(SoldToday) + new
               /\ cash = RSub(after_sell, RMul(R(new), cash_per_asset))
               /\ DayFees =
                      RAdd(RSum([a \in Assets |->
                                    SellFee(DayStart.positions[a], TodayRow[a])],
                                SoldToday),
                           RMul(R(new), BuyFee(cash_per_asset)))

\* a date that keeps one asset and buys the other with the cash left
C26_Witness ==
    /\ TradesOver
    /\ KeptToday = {"X"}
    /\ NewToday = {"Y"}
    /\ RGt(DayStart.cash, R(0))
    /\ RGt(positions["Y"], R(0))
    /\ RGt(cash, R(0))
    /\ RGt(TRANSACTION_FEE_PCT, R(0))

\* C30 (as stated): every buy counted in total_trades acquires a strictly
\* positive quantity, so that the asset is held on the next date; no trade
\* is counted for a new target asset when the Buy step starts with cash 0.
C30_CountedBuysAcquire ==
    TradesOver =>
        /\ \A a \in NewToday : RGt(positions[a], R(0))
        /\ DayTrades - Cardinality(SoldToday) =
               Cardinality({a \in NewToday : RGt(positions[a], R(0))})

----------------------------------------------------------------------------
(* The exact solver's optimum and its choice among equal optima *)

\* the position of an identifier in alphabetical order
IdRank(a) == CHOOSE i \in DOMAIN MainAssets : MainAssets[i] = a

RECURSIVE SortedRanks(_)
\* the identifiers of a selection, in ascending order
SortedRanks(S) ==
    IF S = {}
    THEN <<>>
    ELSE LET m == CHOOSE r \in S : \A q \in S : r <= q
         IN  <<m>> \o SortedRanks(S \ {m})

RECURSIVE LexLeq(_, _)
\* lexicographic order of identifier lists
LexLeq(s, t) ==
    IF s = <<>> THEN TRUE
    ELSE IF t = <<>> THEN FALSE
    ELSE IF s[1] < t[1] THEN TRUE
    ELSE IF s[1] > t[1] THEN FALSE
    ELSE LexLeq(Tail(s), Tail(t))

Ids(x) == SortedRanks({IdRank(a) : a \in x})

Feasible(qp) == {x \in Bitstrings(qp) : Violation(qp, x) = 0}

----------------------------------------------------------------------------
(* The order in which run_simple_backtest visits the dates *)

\* line 20 iterates over daily_choices.items(): the dict's insertion order,
\* whatever the dates are
NextDateAnyOrder ==
    /\ \E date \in 1..n_dates, row \in PriceRows, target \in SUBSET Assets :
           ValueStep(date, row, target)
    /\ UNCHANGED <<opt_vars, aux_vars>>

\* a run without costs over MaxDays dates
InitOrder ==
    /\ Init
    /\ n_dates = MaxDays
    /\ TRANSACTION_FEE_PCT = R(0)
    /\ SLIPPAGE_PCT = R(0)

NextOrder == NextDateAnyOrder \/ Sell \/ BeginBuy \/ Buy \/ EndDate \/ Finish

SpecOrder == InitOrder /\ [][NextOrder]_vars

\* the dates visited so far are in ascending order, one equity point each
AscendingSoFar ==
    /\ \A i, j \in DOMAIN cost_history :
           i < j => cost_history[i].date < cost_history[j].date
    /\ Len(portfolio_history) = Len(cost_history)
    /\ pc = "done" => DatesDone = 1..n_dates

\* Value, then Sell, then Buy: no buy before the date's sells are over, and
\* nothing of a date is pending when the next one starts
StepsInOrder ==
    /\ pc = "buy" => to_sell = {}
    /\ pc = "sell" => to_buy = {}
    /\ pc \in {"idle", "done"} => (to_sell = {} /\ to_buy = {})

\* a date starts from the cash and positions the previous date ended with
CarriedForward ==
    /\ (pc = "buy" /\ pc' = "idle") => (cash' = cash /\ positions' = positions)
    /\ (pc = "idle" /\ pc' = "sell") =>
           /\ cash' = cash
           /\ positions' = positions
           /\ cost_history'[Len(cost_history')].cash = cash
           /\ cost_history'[Len(cost_history')].positions = positions

\* C28 (as stated): the engine visits the dates in ascending order, each
\* once, runs Value, Sell and Buy of a date before the next date, emits one
\* equity point per date in that order, and each date sees the cash and
\* positions the preceding date left.
C28_AscendingDates ==
    /\ [](AscendingSoFar /\ StepsInOrder)
    /\ [][CarriedForward]_vars

====
